---- MODULE Spec2Model ----
(***************************************************************************)
(* Model of soc_climb: the in-memory social graph (graph.py), the          *)
(* automatic edge inference (auto_edges.py) and the path solver            *)
(* (pathfinding.py).                                                       *)
(*                                                                         *)
(* Weights are Python floats in the code; the model uses integers for the  *)
(* finite ones and a tagged value for NaN / +inf / -inf.                   *)
(***************************************************************************)
EXTENDS Integers, Sequences, FiniteSets, TLC

VARIABLES people, adjacency, edge_contexts, max_weight, max_weight_stale, last

vars == <<people, adjacency, edge_contexts, max_weight, max_weight_stale, last>>

\* The five fields of a SocGraph instance, as one record.
Graph ==
  [people |-> people, adjacency |-> adjacency, edge_contexts |-> edge_contexts,
   max_weight |-> max_weight, max_weight_stale |-> max_weight_stale]

----------------------------------------------------------------------------
\* Bounds of the model.

\* Largest weight an edge may accumulate in the store specification.
MaxWeight == 2

\* Largest accumulated value of one context label.
MaxContext == 1

----------------------------------------------------------------------------
\* Values.

Ids == {"a", "b", "c"}

ContextLabels == {"school"}

\* A float: a finite number, or one of the three non-finite values.
Fin(n) == [kind |-> "fin", v |-> n]

NaN == [kind |-> "nan", v |-> 0]

Inf == [kind |-> "inf", v |-> 0]

NonFinite == {NaN, Inf, [kind |-> "ninf", v |-> 0]}

isfinite(x) == x.kind = "fin"

\* The empty mapping, for dicts keyed by ids, pairs or labels.
EmptyMap == [x \in {} |-> 0]

Max(S) == CHOOSE x \in S : \A y \in S : y <= x

Min(S) == CHOOSE x \in S : \A y \in S : x <= y

\* dict.pop(key, None): the mapping without the key.
Pop(f, k) == [x \in (DOMAIN f) \ {k} |-> f[x]]

\* dict[key] = value.
Put(f, k, v) == [x \in (DOMAIN f) \cup {k} |-> IF x = k THEN v ELSE f[x]]

----------------------------------------------------------------------------
\* PersonNode.  The relationship attributes are the ones the code reads:
\* graph.py and auto_edges.py read close_connections, family_links and
\* family, models.py declares family_friends_links.  Lists are kept as sets,
\* societies as a mapping from name to rank, platforms by their keys, tier 0
\* for None, a decision node as [org, start, end] with dates as day numbers
\* and 0 for a date that is missing or does not parse.  dependency_weight
\* has the default of models.py.

PersonNode(id, close, family, ffl) ==
  [id |-> id, close_connections |-> close, family_links |-> family,
   family_friends_links |-> ffl,
   family |-> "", schools |-> {}, employers |-> {}, ecosystems |-> {},
   platforms |-> {}, location |-> "", decision_nodes |-> {},
   societies |-> EmptyMap, tier |-> 0, dependency_weight |-> 3]

DecisionNode(org, start, end) == [org |-> org, start |-> start, end |-> end]

\* The people the store specification adds: a and b with empty relationship
\* lists, and c naming a in each of its lists.
StorePersons ==
  {PersonNode("a", {}, {}, {}), PersonNode("b", {}, {}, {}), PersonNode("c", {"a"}, {"a"}, {"a"}),
   [PersonNode("b", {}, {}, {}) EXCEPT !.tier = 2]}

----------------------------------------------------------------------------
\* SocGraph reads.

\* get_edge_weight: 0 stands for None (no stored weight is 0, see
\* StoredWeightsPositive).
get_edge_weight(g, a, b) ==
  IF a \in DOMAIN g.adjacency /\ b \in DOMAIN g.adjacency[a]
  THEN g.adjacency[a][b] ELSE 0

HasEdge(g, a, b) == a \in DOMAIN g.adjacency /\ b \in DOMAIN g.adjacency[a]

\* The (source, target) pairs of adjacency.
Edges(g) == UNION {{<<s, t>> : t \in DOMAIN g.adjacency[s]} : s \in DOMAIN g.adjacency}

\* edge_contexts(source, target): {} when there is no entry.
edge_contexts_of(g, s, t) ==
  IF <<s, t>> \in DOMAIN g.edge_contexts THEN g.edge_contexts[<<s, t>>] ELSE EmptyMap

\* _iter_weights: the stored weights that are finite and positive.
iter_weights(g) ==
  {w \in UNION {{g.adjacency[s][t] : t \in DOMAIN g.adjacency[s]} : s \in DOMAIN g.adjacency} :
     w > 0}

\* max_weight(): recomputes the cache when it is stale, then returns it.
\* The graph after the call, and the value returned.
max_weight_call(g) ==
  IF g.max_weight_stale
  THEN LET m == IF iter_weights(g) = {} THEN 0 ELSE Max(iter_weights(g))
       IN [g |-> [g EXCEPT !.max_weight = m, !.max_weight_stale = FALSE], value |-> m]
  ELSE [g |-> g, value |-> g.max_weight]

----------------------------------------------------------------------------
\* SocGraph operations.  Each returns the graph after the call and the
\* exception raised ("" when the call returns normally).

EmptyGraph ==
  [people |-> EmptyMap, adjacency |-> EmptyMap, edge_contexts |-> EmptyMap,
   max_weight |-> 0, max_weight_stale |-> FALSE]

Return(g) == [g |-> g, err |-> ""]

Raise(g, e) == [g |-> g, err |-> e]

\* ensure_person
ensure_person(g, person_id) == person_id \in DOMAIN g.people

\* add_person that stores the given record before it checks for a duplicate.
add_person_store_first(g, person, overwrite) ==
  IF person.id \in DOMAIN g.people /\ ~overwrite
  THEN Raise([g EXCEPT !.people = Put(@, person.id, person)], "DuplicateId")
  ELSE Return([g EXCEPT
         !.people = Put(@, person.id, person),
         !.adjacency = IF person.id \in DOMAIN @ THEN @ ELSE Put(@, person.id, EmptyMap)])

\* add_person
add_person(g, person, overwrite) ==
  IF person.id \in DOMAIN g.people /\ ~overwrite
  THEN Raise(g, "DuplicateId")
  ELSE Return([g EXCEPT
         !.people = Put(@, person.id, person),
         !.adjacency = IF person.id \in DOMAIN @ THEN @ ELSE Put(@, person.id, EmptyMap)])

\* remove_person that pops the person's own adjacency row and leaves the
\* edges other people hold to it.
remove_person_outgoing_only(g, person_id) ==
  IF ~ensure_person(g, person_id)
  THEN Raise(g, "UnknownPerson")
  ELSE
    LET outgoing == IF person_id \in DOMAIN g.adjacency
                    THEN g.adjacency[person_id] ELSE EmptyMap
    IN Return([people |-> Pop(g.people, person_id),
               adjacency |-> Pop(g.adjacency, person_id),
               edge_contexts |->
                 [k \in (DOMAIN g.edge_contexts) \ {<<person_id, t>> : t \in DOMAIN outgoing}
                    |-> g.edge_contexts[k]],
               max_weight |-> g.max_weight, max_weight_stale |-> TRUE])

remove_person(g, person_id) ==
  IF ~ensure_person(g, person_id)
  THEN Raise(g, "UnknownPerson")
  ELSE
    LET people1 == Pop(g.people, person_id)
        outgoing == IF person_id \in DOMAIN g.adjacency
                    THEN g.adjacency[person_id] ELSE EmptyMap
        adj1 == Pop(g.adjacency, person_id)
        ctx1 == [k \in (DOMAIN g.edge_contexts) \ {<<person_id, t>> : t \in DOMAIN outgoing}
                   |-> g.edge_contexts[k]]
        incoming == {s \in DOMAIN adj1 : person_id \in DOMAIN adj1[s]}
        adj2 == [s \in DOMAIN adj1 |-> Pop(adj1[s], person_id)]
        ctx2 == [k \in (DOMAIN ctx1) \ {<<s, person_id>> : s \in incoming} |-> ctx1[k]]
        people2 == [p \in DOMAIN people1 |->
                      [people1[p] EXCEPT !.close_connections = @ \ {person_id},
                                         !.family_links = @ \ {person_id}]]
    IN Return([people |-> people2, adjacency |-> adj2, edge_contexts |-> ctx2,
               max_weight |-> g.max_weight, max_weight_stale |-> TRUE])

\* _remove_edge
remove_edge(g, source, target) ==
  LET present == HasEdge(g, source, target)
      weight == get_edge_weight(g, source, target)
  IN [g EXCEPT
        !.adjacency = IF present THEN Put(@, source, Pop(@[source], target)) ELSE @,
        !.edge_contexts = Pop(@, <<source, target>>),
        !.max_weight_stale = IF present /\ weight >= g.max_weight THEN TRUE ELSE @]

\* The context map of an edge after the deltas of contexts are added to it.
AccumulateContexts(old_ctx, contexts) ==
  [name \in (DOMAIN old_ctx) \cup (DOMAIN contexts) |->
     (IF name \in DOMAIN old_ctx THEN old_ctx[name] ELSE 0)
     + (IF name \in DOMAIN contexts THEN contexts[name] ELSE 0)]

\* _increment_edge that never marks the cache stale when it lowers a weight.
increment_edge_no_stale(g, source, target, weight_delta, contexts) ==
  LET row == IF source \in DOMAIN g.adjacency THEN g.adjacency[source] ELSE EmptyMap
      current == IF target \in DOMAIN row THEN row[target] ELSE 0
      weight == current + weight_delta
  IN IF weight <= 0
     THEN [g EXCEPT !.adjacency = Put(@, source, Pop(row, target)),
                    !.edge_contexts = Pop(@, <<source, target>>),
                    !.max_weight_stale = TRUE]
     ELSE [g EXCEPT
             !.adjacency = Put(@, source, Put(row, target, weight)),
             !.max_weight = IF weight > @ THEN weight ELSE @,
             !.edge_contexts =
                IF DOMAIN contexts = {} THEN @
                ELSE Put(@, <<source, target>>,
                         AccumulateContexts(edge_contexts_of(g, source, target), contexts))]

\* _increment_edge that deletes an edge only below 0, storing a weight of 0.
increment_edge_keep_zero(g, source, target, weight_delta, contexts) ==
  LET row == IF source \in DOMAIN g.adjacency THEN g.adjacency[source] ELSE EmptyMap
      current == IF target \in DOMAIN row THEN row[target] ELSE 0
      weight == current + weight_delta
  IN IF weight < 0
     THEN [g EXCEPT !.adjacency = Put(@, source, Pop(row, target)),
                    !.edge_contexts = Pop(@, <<source, target>>),
                    !.max_weight_stale = TRUE]
     ELSE [g EXCEPT
             !.adjacency = Put(@, source, Put(row, target, weight)),
             !.max_weight_stale = IF weight < current /\ current >= g.max_weight THEN TRUE ELSE @,
             !.max_weight = IF weight > @ THEN weight ELSE @,
             !.edge_contexts =
                IF DOMAIN contexts = {} THEN @
                ELSE Put(@, <<source, target>>,
                         AccumulateContexts(edge_contexts_of(g, source, target), contexts))]

\* _increment_edge that leaves the contexts of an edge it drops.
increment_edge_keep_contexts(g, source, target, weight_delta, contexts) ==
  LET row == IF source \in DOMAIN g.adjacency THEN g.adjacency[source] ELSE EmptyMap
      current == IF target \in DOMAIN row THEN row[target] ELSE 0
      weight == current + weight_delta
      old_ctx == edge_contexts_of(g, source, target)
  IN IF weight <= 0
     THEN [g EXCEPT !.adjacency = Put(@, source, Pop(row, target)),
                    !.max_weight_stale = TRUE]
     ELSE [g EXCEPT
             !.adjacency = Put(@, source, Put(row, target, weight)),
             !.max_weight_stale = IF weight < current /\ current >= g.max_weight THEN TRUE ELSE @,
             !.max_weight = IF weight > @ THEN weight ELSE @,
             !.edge_contexts =
                IF DOMAIN contexts = {} THEN @
                ELSE Put(@, <<source, target>>, AccumulateContexts(old_ctx, contexts))]

\* _increment_edge, with a finite weight_delta and finite context deltas.
increment_edge(g, source, target, weight_delta, contexts) ==
  LET row == IF source \in DOMAIN g.adjacency THEN g.adjacency[source] ELSE EmptyMap
      current == IF target \in DOMAIN row THEN row[target] ELSE 0
      weight == current + weight_delta
      old_ctx == edge_contexts_of(g, source, target)
  IN IF weight <= 0
     THEN [g EXCEPT !.adjacency = Put(@, source, Pop(row, target)),
                    !.edge_contexts = Pop(@, <<source, target>>),
                    !.max_weight_stale = TRUE]
     ELSE [g EXCEPT
             !.adjacency = Put(@, source, Put(row, target, weight)),
             !.max_weight_stale = IF weight < current /\ current >= g.max_weight THEN TRUE ELSE @,
             !.max_weight = IF weight > @ THEN weight ELSE @,
             !.edge_contexts =
                IF DOMAIN contexts = {} THEN @
                ELSE Put(@, <<source, target>>, AccumulateContexts(old_ctx, contexts))]

\* The numbers of a mapping of finite floats.
Values(contexts) == [k \in DOMAIN contexts |-> contexts[k].v]

\* add_connection that looks person_b up only after the first direction is
\* applied.
add_connection_late_check(g, person_a, person_b, weight_delta, contexts, symmetric) ==
  IF person_a = person_b THEN Raise(g, "SelfLoop")
  ELSE IF ~isfinite(weight_delta) THEN Raise(g, "InvalidWeight")
  ELSE IF \E key \in DOMAIN contexts : ~isfinite(contexts[key]) THEN Raise(g, "InvalidWeight")
  ELSE IF ~ensure_person(g, person_a) THEN Raise(g, "UnknownPerson")
  ELSE LET g1 == increment_edge(g, person_a, person_b, weight_delta.v, Values(contexts))
       IN IF ~ensure_person(g, person_b) THEN Raise(g1, "UnknownPerson")
          ELSE Return(IF symmetric
                      THEN increment_edge(g1, person_b, person_a, weight_delta.v, Values(contexts))
                      ELSE g1)

\* add_connection whose symmetric call keeps one accumulator for the pair:
\* the reverse direction is given the forward direction's new weight.
add_connection_shared(g, person_a, person_b, weight_delta, contexts, symmetric) ==
  IF person_a = person_b THEN Raise(g, "SelfLoop")
  ELSE IF ~isfinite(weight_delta) THEN Raise(g, "InvalidWeight")
  ELSE IF \E key \in DOMAIN contexts : ~isfinite(contexts[key]) THEN Raise(g, "InvalidWeight")
  ELSE IF ~ensure_person(g, person_a) THEN Raise(g, "UnknownPerson")
  ELSE IF ~ensure_person(g, person_b) THEN Raise(g, "UnknownPerson")
  ELSE LET g1 == increment_edge(g, person_a, person_b, weight_delta.v, Values(contexts))
           forward == get_edge_weight(g1, person_a, person_b)
           reverse == get_edge_weight(g1, person_b, person_a)
       IN Return(IF symmetric
                 THEN increment_edge(g1, person_b, person_a, forward - reverse, Values(contexts))
                 ELSE g1)

add_connection(g, person_a, person_b, weight_delta, contexts, symmetric) ==
  IF person_a = person_b THEN Raise(g, "SelfLoop")
  ELSE IF ~isfinite(weight_delta) THEN Raise(g, "InvalidWeight")
  ELSE IF \E key \in DOMAIN contexts : ~isfinite(contexts[key]) THEN Raise(g, "InvalidWeight")
  ELSE IF ~ensure_person(g, person_a) THEN Raise(g, "UnknownPerson")
  ELSE IF ~ensure_person(g, person_b) THEN Raise(g, "UnknownPerson")
  ELSE LET g1 == increment_edge(g, person_a, person_b, weight_delta.v, Values(contexts))
       IN Return(IF symmetric
                 THEN increment_edge(g1, person_b, person_a, weight_delta.v, Values(contexts))
                 ELSE g1)

\* remove_connection that removes both directions whatever symmetric says.
remove_connection_both_ways(g, person_a, person_b, symmetric) ==
  IF ~ensure_person(g, person_a) THEN Raise(g, "UnknownPerson")
  ELSE IF ~ensure_person(g, person_b) THEN Raise(g, "UnknownPerson")
  ELSE Return(remove_edge(remove_edge(g, person_a, person_b), person_b, person_a))

\* remove_connection
remove_connection(g, person_a, person_b, symmetric) ==
  IF ~ensure_person(g, person_a) THEN Raise(g, "UnknownPerson")
  ELSE IF ~ensure_person(g, person_b) THEN Raise(g, "UnknownPerson")
  ELSE LET g1 == remove_edge(g, person_a, person_b)
       IN Return(IF symmetric THEN remove_edge(g1, person_b, person_a) ELSE g1)

----------------------------------------------------------------------------
\* auto_edges.py: constants.

MIN_DISTANCE == 1

MIN_INFERRED_DISTANCE == 2

MAX_DISTANCE == 12

RELEVANCE_THRESHOLD == 5

SCORE_DIVISOR == 2

MAX_CLOSENESS_STEPS == 10

CAP_SCHOOLS == 6

CAP_EMPLOYERS == 8

CAP_ECOSYSTEMS == 4

CAP_PLATFORMS == 2

CAP_LOCATION == 2

CAP_DECISION == 10

CAP_SOCIETIES == 8

CAP_FAMILY == 8

EXPLICIT_DISTANCE == 2

\* date.max, as a day number beyond every date of the model.
DateMax == 1000 * 365

----------------------------------------------------------------------------
\* auto_edges.py: the inference function.

min2(x, y) == IF x <= y THEN x ELSE y

\* The one element of a set of one element.
TheOne(S) == CHOOSE x \in S : TRUE

max2(x, y) == IF x >= y THEN x ELSE y

Abs(x) == IF x < 0 THEN -x ELSE x

RECURSIVE SumOver(_, _)
\* The sum of f[x] over the x of S.
SumOver(f, S) ==
  IF S = {} THEN 0
  ELSE LET x == CHOOSE y \in S : TRUE IN f[x] + SumOver(f, S \ {x})

\* _years_ago; -1 stands for None.
years_ago(value, today) ==
  IF value = 0 THEN -1
  ELSE IF today - value < 0 THEN 0
  ELSE (today - value) \div 365

\* _clip_int
clip_int(value, low, high) ==
  IF value < low THEN low ELSE IF value > high THEN high ELSE value

\* _set_overlap_points
set_overlap_points(weight, values_a, values_b) ==
  IF values_a = {} \/ values_b = {} THEN 0
  ELSE weight * Cardinality(values_a \cap values_b)

\* _society_score
society_score(societies_a, societies_b) ==
  LET shared == (DOMAIN societies_a) \cap (DOMAIN societies_b)
  IN SumOver([name \in shared |-> max2(1, 4 - Abs(societies_a[name] - societies_b[name]))],
             shared)

\* _tier_assortativity
tier_assortativity(tier_a, tier_b) ==
  IF tier_a = 0 \/ tier_b = 0 THEN 0
  ELSE IF Abs(tier_a - tier_b) = 0 THEN 2
  ELSE IF Abs(tier_a - tier_b) = 1 THEN 1
  ELSE 0

\* _date_ranges_overlap
date_ranges_overlap(a_start, a_end, b_start, b_end) ==
  IF a_start = 0 \/ b_start = 0 THEN FALSE
  ELSE LET a_effective_end == IF a_end # 0 THEN a_end ELSE DateMax
           b_effective_end == IF b_end # 0 THEN b_end ELSE DateMax
       IN ~(a_effective_end < b_start \/ b_effective_end < a_start)

\* _pair_decision_score
pair_decision_score(a_start, a_end, b_start, b_end, today) ==
  IF date_ranges_overlap(a_start, a_end, b_start, b_end) THEN 6
  ELSE LET a_ref == IF a_end # 0 THEN a_end ELSE a_start
           b_ref == IF b_end # 0 THEN b_end ELSE b_start
           years_a == years_ago(a_ref, today)
           years_b == years_ago(b_ref, today)
           most_recent_years == min2(years_a, years_b)
       IN IF years_a = -1 \/ years_b = -1 THEN 1
          ELSE IF most_recent_years < 3 THEN 3
          ELSE IF most_recent_years < 7 THEN 2
          ELSE 1

\* _decision_node_overlap_score
decision_node_overlap_score(nodes_a, nodes_b, today) ==
  LET orgs_a == {n.org : n \in {m \in nodes_a : m.org # ""}}
      orgs_b == {n.org : n \in {m \in nodes_b : m.org # ""}}
      shared == orgs_a \cap orgs_b
      best_pair_score(org) ==
        Max({0} \cup {pair_decision_score(x.start, x.end, y.start, y.end, today) :
                        x \in {m \in nodes_a : m.org = org},
                        y \in {m \in nodes_b : m.org = org}})
  IN SumOver([org \in shared |-> best_pair_score(org)], shared)

\* int(score ** 0.5): the integer square root.
isqrt(score) == CHOOSE k \in 0..score : k * k <= score /\ (k + 1) * (k + 1) > score

\* _diminishing_returns
diminishing_returns(score) == IF score <= 0 THEN 0 ELSE isqrt(score) * 4

\* _score_to_distance
score_to_distance(score, min_distance, max_closeness_steps) ==
  LET span == MAX_DISTANCE - min_distance
      steps == clip_int(score \div SCORE_DIVISOR, 0, min2(span, max_closeness_steps))
      distance == MAX_DISTANCE - steps
  IN clip_int(distance, min_distance, MAX_DISTANCE)

\* The explicit part of edge_distance_value: the points of the declared
\* ties and whether any is present.
explicit_evidence(new_person, other_person) ==
  LET close_new == other_person.id \in new_person.close_connections
      close_other == new_person.id \in other_person.close_connections
      family_link == \/ other_person.id \in new_person.family_links
                     \/ new_person.id \in other_person.family_links
  IN [score |-> (IF close_new THEN 12 ELSE 0) + (IF close_other THEN 10 ELSE 0)
                + (IF family_link THEN 12 ELSE 0),
      explicit_link |-> close_new \/ close_other \/ family_link]

\* The inferred part of edge_distance_value without the caps of the set
\* overlaps.
category_points_uncapped(new_person, other_person, today) ==
  [schools |-> set_overlap_points(3, new_person.schools, other_person.schools),
   employers |-> set_overlap_points(4, new_person.employers, other_person.employers),
   ecosystems |-> set_overlap_points(2, new_person.ecosystems, other_person.ecosystems),
   platforms |-> set_overlap_points(1, new_person.platforms, other_person.platforms),
   location |-> IF new_person.location # "" /\ new_person.location = other_person.location
                THEN CAP_LOCATION ELSE 0,
   decision |-> min2(CAP_DECISION,
                     decision_node_overlap_score(new_person.decision_nodes,
                                                 other_person.decision_nodes, today)),
   societies |-> min2(CAP_SOCIETIES, society_score(new_person.societies, other_person.societies))]

\* The inferred part of edge_distance_value: the amount each category adds
\* to the score.
category_points(new_person, other_person, today) ==
  [schools |-> min2(CAP_SCHOOLS,
                    set_overlap_points(3, new_person.schools, other_person.schools)),
   employers |-> min2(CAP_EMPLOYERS,
                      set_overlap_points(4, new_person.employers, other_person.employers)),
   ecosystems |-> min2(CAP_ECOSYSTEMS,
                       set_overlap_points(2, new_person.ecosystems, other_person.ecosystems)),
   platforms |-> min2(CAP_PLATFORMS,
                      set_overlap_points(1, new_person.platforms, other_person.platforms)),
   location |-> IF new_person.location # "" /\ new_person.location = other_person.location
                THEN CAP_LOCATION ELSE 0,
   decision |-> min2(CAP_DECISION,
                     decision_node_overlap_score(new_person.decision_nodes,
                                                 other_person.decision_nodes, today)),
   societies |-> min2(CAP_SOCIETIES, society_score(new_person.societies, other_person.societies))]

\* The score edge_distance_value accumulates.
edge_score(new_person, other_person, today) ==
  explicit_evidence(new_person, other_person).score
  + min2(CAP_FAMILY,
         IF new_person.family # "" /\ new_person.family = other_person.family THEN 4 ELSE 0)
  + TheOne({points.schools + points.employers + points.ecosystems + points.platforms
            + points.location + points.decision + points.societies :
              points \in {category_points(new_person, other_person, today)}})
  + tier_assortativity(new_person.tier, other_person.tier)

\* None as the value of edge_distance_value.
NoCandidate == [none |-> TRUE, distance |-> 0, explicit |-> FALSE]

\* edge_distance_value without the cap of explicit distances.
edge_distance_value_uncapped(new_person, other_person, today) ==
  LET explicit_link == explicit_evidence(new_person, other_person).explicit_link
      score == edge_score(new_person, other_person, today)
  IN IF ~explicit_link /\ score < RELEVANCE_THRESHOLD
     THEN NoCandidate
     ELSE IF explicit_link
     THEN [none |-> FALSE,
           distance |-> score_to_distance(score, MIN_DISTANCE, MAX_DISTANCE - MIN_DISTANCE),
           explicit |-> TRUE]
     ELSE [none |-> FALSE,
           distance |-> score_to_distance(diminishing_returns(score), MIN_INFERRED_DISTANCE,
                                          MAX_CLOSENESS_STEPS),
           explicit |-> FALSE]

\* edge_distance_value whose relevance gate also drops a score equal to the
\* threshold.
edge_distance_value_gate_inclusive(new_person, other_person, today) ==
  LET explicit_link == explicit_evidence(new_person, other_person).explicit_link
      score == edge_score(new_person, other_person, today)
  IN IF ~explicit_link /\ score <= RELEVANCE_THRESHOLD
     THEN NoCandidate
     ELSE IF explicit_link
     THEN [none |-> FALSE,
           distance |-> min2(EXPLICIT_DISTANCE,
                             score_to_distance(score, MIN_DISTANCE, MAX_DISTANCE - MIN_DISTANCE)),
           explicit |-> TRUE]
     ELSE [none |-> FALSE,
           distance |-> score_to_distance(diminishing_returns(score), MIN_INFERRED_DISTANCE,
                                          MAX_CLOSENESS_STEPS),
           explicit |-> FALSE]

\* edge_distance_value: [none |-> TRUE] for None, else the distance and the
\* explicit flag.
edge_distance_value(new_person, other_person, today) ==
  LET explicit_link == explicit_evidence(new_person, other_person).explicit_link
      score == edge_score(new_person, other_person, today)
  IN IF ~explicit_link /\ score < RELEVANCE_THRESHOLD
     THEN [none |-> TRUE, distance |-> 0, explicit |-> FALSE]
     ELSE IF explicit_link
     THEN [none |-> FALSE,
           distance |-> min2(EXPLICIT_DISTANCE,
                             score_to_distance(score, MIN_DISTANCE, MAX_DISTANCE - MIN_DISTANCE)),
           explicit |-> TRUE]
     ELSE [none |-> FALSE,
           distance |-> score_to_distance(diminishing_returns(score), MIN_INFERRED_DISTANCE,
                                          MAX_CLOSENESS_STEPS),
           explicit |-> FALSE]

----------------------------------------------------------------------------
\* auto_edges.py: connecting a person to the people of the graph.

\* top_k is <<>> for None and <<k>> for the integer k.
NoTopK == <<>>

TopK(k) == <<k>>

\* The ids auto_connect_new_person meets, i.e. graph.people without the new
\* person, and what edge_distance_value returns for each.
Candidates(new_person, g, today) ==
  {o \in (DOMAIN g.people) \ {new_person.id} :
     ~edge_distance_value(new_person, g.people[o], today).none}

\* auto_connect_new_person whose room for inferred candidates is top_k
\* itself, whatever the number of explicit candidates.
auto_connect_room_ignores_explicit(new_person, g, top_k, today, order) ==
  IF top_k # NoTopK /\ top_k[1] < 0
  THEN [err |-> "InvalidArgument", distances |-> EmptyMap]
  ELSE
    LET candidates == Candidates(new_person, g, today)
        value(o) == edge_distance_value(new_person, g.people[o], today)
        explicit_edges == {o \in candidates : value(o).explicit}
        inferred_edges == {o \in candidates : ~value(o).explicit}
        before(o) == Cardinality({x \in inferred_edges :
                        \/ value(x).distance < value(o).distance
                        \/ (value(x).distance = value(o).distance /\ order[x] < order[o])})
        room == max2(0, top_k[1])
        selected == IF top_k = NoTopK THEN candidates
                    ELSE explicit_edges \cup {o \in inferred_edges : before(o) < room}
    IN [err |-> "", distances |-> [o \in selected |-> value(o).distance]]

\* auto_connect_new_person.  order gives every id its position in the
\* iteration over graph.people.values(): the stable sort leaves candidates
\* of equal distance in that order.
auto_connect_new_person(new_person, g, top_k, today, order) ==
  IF top_k # NoTopK /\ top_k[1] < 0
  THEN [err |-> "InvalidArgument", distances |-> EmptyMap]
  ELSE
    LET candidates == Candidates(new_person, g, today)
        value(o) == edge_distance_value(new_person, g.people[o], today)
        explicit_edges == {o \in candidates : value(o).explicit}
        inferred_edges == {o \in candidates : ~value(o).explicit}
        \* How many inferred candidates the sort puts before o.
        before(o) == Cardinality({x \in inferred_edges :
                        \/ value(x).distance < value(o).distance
                        \/ (value(x).distance = value(o).distance /\ order[x] < order[o])})
        room == max2(0, top_k[1] - Cardinality(explicit_edges))
        selected == IF top_k = NoTopK THEN candidates
                    ELSE explicit_edges \cup {o \in inferred_edges : before(o) < room}
    IN [err |-> "", distances |-> [o \in selected |-> value(o).distance]]

\* SocGraph.clear_incident_edges: every edge into or out of the person is
\* removed with its contexts.
RECURSIVE clear_incident_edges_from(_, _, _)
clear_incident_edges_from(g, person_id, others) ==
  IF others = {} THEN g
  ELSE LET o == CHOOSE x \in others : TRUE
       IN clear_incident_edges_from(
            remove_edge(remove_edge(g, person_id, o), o, person_id), person_id, others \ {o})

clear_incident_edges(g, person_id) ==
  clear_incident_edges_from(g, person_id, (DOMAIN g.adjacency) \ {person_id})

\* The loop of upsert_person_with_auto_edges over distances.items(): for
\* each id the pair's edges are removed and a symmetric edge is added.  The
\* result carries the exception of the first call that raises.
RECURSIVE apply_distances(_, _, _, _)
apply_distances(g, person_id, distances, todo) ==
  IF todo = {} THEN Return(g)
  ELSE LET other_id == CHOOSE x \in todo : TRUE
           removed == remove_connection(g, person_id, other_id, TRUE)
           added == add_connection(removed.g, person_id, other_id, Fin(distances[other_id]),
                                   EmptyMap, TRUE)
       IN IF removed.err # "" THEN removed
          ELSE IF added.err # "" THEN added
          ELSE apply_distances(added.g, person_id, distances, todo \ {other_id})

\* upsert_person_with_auto_edges without the clearing of the replaced
\* person's edges.
upsert_without_clear(g, person, overwrite, top_k, today, order) ==
  LET added == add_person(g, person, overwrite)
  IN IF added.err # "" THEN [g |-> g, err |-> added.err, distances |-> EmptyMap]
     ELSE LET connect == auto_connect_new_person(person, added.g, top_k, today, order)
          IN IF connect.err # ""
             THEN [g |-> added.g, err |-> connect.err, distances |-> EmptyMap]
             ELSE LET applied == apply_distances(added.g, person.id, connect.distances,
                                                 DOMAIN connect.distances)
                  IN [g |-> applied.g, err |-> applied.err, distances |-> connect.distances]

\* The loop over distances.items() with symmetric=False in add_connection.
RECURSIVE apply_distances_one_way(_, _, _, _)
apply_distances_one_way(g, person_id, distances, todo) ==
  IF todo = {} THEN Return(g)
  ELSE LET other_id == CHOOSE x \in todo : TRUE
           removed == remove_connection(g, person_id, other_id, TRUE)
           added == add_connection(removed.g, person_id, other_id, Fin(distances[other_id]),
                                   EmptyMap, FALSE)
       IN IF removed.err # "" THEN removed
          ELSE IF added.err # "" THEN added
          ELSE apply_distances_one_way(added.g, person_id, distances, todo \ {other_id})

\* upsert_person_with_auto_edges that adds each edge one way only.
upsert_one_way(g, person, overwrite, top_k, today, order) ==
  LET existed == person.id \in DOMAIN g.people
      added == add_person(g, person, overwrite)
      g1 == IF existed THEN clear_incident_edges(added.g, person.id) ELSE added.g
  IN IF added.err # "" THEN [g |-> g, err |-> added.err, distances |-> EmptyMap]
     ELSE LET connect == auto_connect_new_person(person, g1, top_k, today, order)
          IN IF connect.err # ""
             THEN [g |-> g1, err |-> connect.err, distances |-> EmptyMap]
             ELSE LET applied == apply_distances_one_way(g1, person.id, connect.distances,
                                                         DOMAIN connect.distances)
                  IN [g |-> applied.g, err |-> applied.err, distances |-> connect.distances]

\* upsert_person_with_auto_edges: the graph after the call, the exception
\* raised and the distances returned.
upsert_person_with_auto_edges(g, person, overwrite, top_k, today, order) ==
  LET existed == person.id \in DOMAIN g.people
      added == add_person(g, person, overwrite)
      g1 == IF existed THEN clear_incident_edges(added.g, person.id) ELSE added.g
  IN IF added.err # "" THEN [g |-> g, err |-> added.err, distances |-> EmptyMap]
     ELSE LET connect == auto_connect_new_person(person, g1, top_k, today, order)
          IN IF connect.err # ""
             THEN [g |-> g1, err |-> connect.err, distances |-> EmptyMap]
             ELSE LET applied == apply_distances(g1, person.id, connect.distances,
                                                 DOMAIN connect.distances)
                  IN [g |-> applied.g, err |-> applied.err, distances |-> connect.distances]

----------------------------------------------------------------------------
\* pathfinding.py.  Costs are exact rationals kept as integers in units of
\* 1/CostScale, which every weight up to 12 divides; an infinite cost is Inf.

CostScale == 8 * 9 * 5 * 7 * 11

DYNAMIC == "dynamic"
INVERTED == "inverted"
FIXED == "fixed"

CostStrategy == {DYNAMIC, INVERTED, FIXED}

\* The default of the fixed_high parameter.
fixed_high_default == 100

\* CostComputer.__init__: reads graph.max_weight(), which may refresh the
\* cached maximum of the graph.
CostComputer(g, strategy, fixed_high) ==
  LET read == max_weight_call(g)
  IN [g |-> read.g, strategy |-> strategy, fixed_high |-> fixed_high,
      max_weight |-> max2(read.value, 1)]

\* CostComputer.edge_cost
edge_cost(computer, weight) ==
  IF weight <= 0 THEN Inf
  ELSE IF computer.strategy = INVERTED THEN Fin(CostScale \div weight)
  ELSE IF computer.strategy = FIXED
  THEN LET normalised == (weight * computer.fixed_high * CostScale) \div computer.max_weight
           clamped == min2(computer.fixed_high * CostScale, max2(CostScale, normalised))
       IN Fin((computer.fixed_high * CostScale - clamped) + CostScale)
  ELSE LET effective_max == max2(computer.max_weight, weight)
       IN Fin(((effective_max - weight) + 1) * CostScale)

\* What a query returns: None (found = FALSE) or a PathResult.
NoResult ==
  [found |-> FALSE, node_ids |-> <<>>, edges |-> <<>>, total_cost |-> 0, total_strength |-> 0]

PathEdge(source, target, weight, cost) ==
  [source |-> source, target |-> target, weight |-> weight, cost |-> cost]

\* The loop of _build_path_result over the edges from position i on.
RECURSIVE build_path_edges(_, _, _, _, _, _, _)
build_path_edges(g, nodes, computer, i, edges, total_cost, total_strength) ==
  IF i > Len(nodes) - 1
  THEN [err |-> "", result |-> [found |-> TRUE, node_ids |-> nodes, edges |-> edges,
                                total_cost |-> total_cost, total_strength |-> total_strength]]
  ELSE IF ~HasEdge(g, nodes[i], nodes[i + 1])
  THEN [err |-> "CorruptPath", result |-> NoResult]
  ELSE LET weight == get_edge_weight(g, nodes[i], nodes[i + 1])
           cost == edge_cost(computer, weight)
       IN build_path_edges(g, nodes, computer, i + 1,
                           Append(edges, PathEdge(nodes[i], nodes[i + 1], weight, cost.v)),
                           total_cost + cost.v, total_strength + weight)

\* _build_path_result
build_path_result(g, nodes, computer) ==
  build_path_edges(g, nodes, computer, 1, <<>>, 0, 0)

\* The order of Python's string comparison on the ids of the model.
IdOrder == <<"a", "b", "c", "d", "z">>

IdRank(id) == CHOOSE i \in 1..Len(IdOrder) : IdOrder[i] = id

\* Python's list comparison on trails of ids.
RECURSIVE TrailLess(_, _)
TrailLess(s, t) ==
  IF t = <<>> THEN FALSE
  ELSE IF s = <<>> THEN TRUE
  ELSE IF Head(s) # Head(t) THEN IdRank(Head(s)) < IdRank(Head(t))
  ELSE TrailLess(Tail(s), Tail(t))

\* Python's tuple comparison on the heap entries (cost, node, trail).
EntryLess(x, y) ==
  IF x[1] # y[1] THEN x[1] < y[1]
  ELSE IF x[2] # y[2] THEN IdRank(x[2]) < IdRank(y[2])
  ELSE TrailLess(x[3], y[3])

\* heapq.heappop: the least entry.  Equal entries are kept once; popping the
\* second of two equal entries is skipped by the best_cost test.
heappop(queue) == CHOOSE x \in queue : \A y \in queue \ {x} : EntryLess(x, y)

\* The while loop with every edge cost multiplied by the dependency weight
\* of the person the edge leads to.
RECURSIVE dijkstra_loop_by_dependency(_, _, _, _, _)
dijkstra_loop_by_dependency(g, goal, computer, queue, best_cost) ==
  IF queue = {} THEN [err |-> "", result |-> NoResult]
  ELSE LET entry == heappop(queue)
           cost_so_far == entry[1]
           node == entry[2]
           trail == entry[3]
           rest == queue \ {entry}
       IN IF node \in DOMAIN best_cost /\ cost_so_far >= best_cost[node]
          THEN dijkstra_loop_by_dependency(g, goal, computer, rest, best_cost)
          ELSE LET new_trail == Append(trail, node)
                   row == IF node \in DOMAIN g.adjacency THEN g.adjacency[node] ELSE EmptyMap
                   pushed == {<<cost_so_far + edge_cost(computer, row[neighbor]).v
                                              * g.people[neighbor].dependency_weight,
                                neighbor, new_trail>> :
                              neighbor \in {n \in DOMAIN row :
                                              edge_cost(computer, row[n]) # Inf}}
               IN IF node = goal THEN build_path_result(g, new_trail, computer)
                  ELSE dijkstra_loop_by_dependency(g, goal, computer, rest \cup pushed,
                                                   Put(best_cost, node, cost_so_far))

\* The while loop of dijkstra_shortest_path.
RECURSIVE dijkstra_loop(_, _, _, _, _)
dijkstra_loop(g, goal, computer, queue, best_cost) ==
  IF queue = {} THEN [err |-> "", result |-> NoResult]
  ELSE LET entry == heappop(queue)
           cost_so_far == entry[1]
           node == entry[2]
           trail == entry[3]
           rest == queue \ {entry}
       IN IF node \in DOMAIN best_cost /\ cost_so_far >= best_cost[node]
          THEN dijkstra_loop(g, goal, computer, rest, best_cost)
          ELSE LET new_trail == Append(trail, node)
                   row == IF node \in DOMAIN g.adjacency THEN g.adjacency[node] ELSE EmptyMap
                   pushed == {<<cost_so_far + edge_cost(computer, row[neighbor]).v,
                                neighbor, new_trail>> :
                              neighbor \in {n \in DOMAIN row :
                                              edge_cost(computer, row[n]) # Inf}}
               IN IF node = goal THEN build_path_result(g, new_trail, computer)
                  ELSE dijkstra_loop(g, goal, computer, rest \cup pushed,
                                     Put(best_cost, node, cost_so_far))

\* dijkstra_shortest_path without ensure_person(goal).
dijkstra_unchecked_goal(g, start, goal, strategy, fixed_high) ==
  IF ~ensure_person(g, start)
  THEN [g |-> g, err |-> "UnknownPerson", result |-> NoResult]
  ELSE LET computer == CostComputer(g, strategy, fixed_high)
           found == dijkstra_loop(computer.g, goal, computer, {<<0, start, <<>> >>}, EmptyMap)
       IN [g |-> computer.g, err |-> found.err, result |-> found.result]

\* dijkstra_shortest_path whose queue starts with the edges out of start.
dijkstra_from_neighbours(g, start, goal, strategy, fixed_high) ==
  IF ~ensure_person(g, start) \/ ~ensure_person(g, goal)
  THEN [g |-> g, err |-> "UnknownPerson", result |-> NoResult]
  ELSE LET computer == CostComputer(g, strategy, fixed_high)
           row == g.adjacency[start]
           queue == {<<edge_cost(computer, row[n]).v, n, <<start>> >> : n \in DOMAIN row}
           found == dijkstra_loop(computer.g, goal, computer, queue, EmptyMap)
       IN [g |-> computer.g, err |-> found.err, result |-> found.result]

\* dijkstra_shortest_path: the graph after the call (its cached maximum may
\* have been refreshed), the exception raised and the result.
dijkstra_shortest_path(g, start, goal, strategy, fixed_high) ==
  IF ~ensure_person(g, start) \/ ~ensure_person(g, goal)
  THEN [g |-> g, err |-> "UnknownPerson", result |-> NoResult]
  ELSE LET computer == CostComputer(g, strategy, fixed_high)
           found == dijkstra_loop(computer.g, goal, computer, {<<0, start, <<>> >>}, EmptyMap)
       IN [g |-> computer.g, err |-> found.err, result |-> found.result]

----------------------------------------------------------------------------
\* SocGraph.filter_people.  A criterion value is a string, an integer or a
\* dict, tagged with its type; the attributes are those of PersonNode, typed
\* as models.py declares them.

StrValue(v) == [kind |-> "str", v |-> v]

IntValue(v) == [kind |-> "int", v |-> v]

DictValue(v) == [kind |-> "dict", v |-> v]

\* The attributes that hold a list, a dict, an integer.
ListAttrs == {"schools", "employers", "ecosystems"}

DictAttrs == {"societies"}

IntAttrs == {"tier", "dependency_weight"}

\* _matches for one criterion.  The elements of the lists, the keys of the
\* dicts and the other scalars are strings, the values of societies integers.
matches_one(person, attr, expected) ==
  LET actual == person[attr]
  IN IF attr \in ListAttrs
     THEN expected.kind = "str" /\ expected.v \in actual
     ELSE IF attr \in DictAttrs
     THEN IF expected.kind = "str" THEN expected.v \in DOMAIN actual
          ELSE IF expected.kind = "dict"
          THEN \A key \in DOMAIN expected.v :
                  key \in DOMAIN actual /\ actual[key] = expected.v[key]
          ELSE FALSE
     ELSE IF attr \in IntAttrs
     THEN expected.kind = "int" /\ actual = expected.v
     ELSE expected.kind = "str" /\ actual = expected.v

\* _matches
matches(person, criteria) ==
  \A attr \in DOMAIN criteria : matches_one(person, attr, criteria[attr])

\* filter_people that keeps a person as soon as one criterion matches.
filter_people_any(g, criteria) ==
  {id \in DOMAIN g.people :
     \E attr \in DOMAIN criteria : matches_one(g.people[id], attr, criteria[attr])}

\* filter_people: the ids of the people returned.
filter_people(g, criteria) ==
  {id \in DOMAIN g.people : matches(g.people[id], criteria)}

----------------------------------------------------------------------------
\* web.py: _extract_person_fields.  The three calls to the extraction
\* service are inputs: each either returns fields or raises HTTPException
\* with a status code, 0 standing for a call that returns.  Extracted fields
\* are [id, name, location, schools, employers], "" standing for None.

ExtractedFields(id, name, location, employers) ==
  [id |-> id, name |-> name, location |-> location, schools |-> {}, employers |-> employers]

\* _merge_extracted_fields
merge_extracted_fields(primary, fallback) ==
  [id |-> IF primary.id = "" THEN fallback.id ELSE primary.id,
   name |-> IF primary.name = "" THEN fallback.name ELSE primary.name,
   location |-> IF primary.location = "" THEN fallback.location ELSE primary.location,
   schools |-> IF primary.schools = {} THEN fallback.schools ELSE primary.schools,
   employers |-> IF primary.employers = {} THEN fallback.employers ELSE primary.employers]

\* _needs_name_follow_up
needs_name_follow_up(fields) ==
  LET has_location == fields.location # ""
      has_schools == fields.schools # {}
      has_employers == fields.employers # {}
  IN ~has_location \/ (~has_schools /\ ~has_employers)

\* The id of the model with its underscores replaced by spaces.
Unslug(candidate) == IF candidate = "jane_doe" THEN "jane doe" ELSE candidate

\* _best_name_query; "" stands for None.
best_name_query(primary, fallback) ==
  IF primary.name # "" THEN primary.name
  ELSE IF fallback.name # "" THEN fallback.name
  ELSE IF primary.id # "" THEN Unslug(primary.id)
  ELSE IF fallback.id # "" THEN Unslug(fallback.id)
  ELSE ""

\* The statuses after which _extract_person_fields goes on.
RetryableStatuses == {500, 502}

\* What _extract_person_fields does: the payload it returns, or the status
\* of the HTTPException it raises, and the calls it made.
Returned(payload, calls) == [status |-> 0, payload |-> payload, calls |-> calls]

Raised(status, calls) == [status |-> status, payload |-> EmptyMap, calls |-> calls]

\* A payload: the fields, the keys that are present besides, and those of
\* them that are true.
Payload(fields, keys, true_keys) == [fields |-> fields, keys |-> keys, true_keys |-> true_keys]

\* The except branch of _extract_person_fields, entered with the status of
\* the exception caught.
web_search_failed(request, status, calls) ==
  LET image_only_fields == request.image_fields
      name_query == best_name_query(image_only_fields, image_only_fields)
      fallback == Payload(image_only_fields,
                          {"web_search_used", "web_search_fallback", "warning"},
                          {"web_search_fallback"})
  IN IF status \notin RetryableStatuses THEN Raised(status, calls)
     ELSE IF name_query # ""
     THEN IF request.retry_status = 0
          THEN Returned(Payload(merge_extracted_fields(request.name_fields, image_only_fields),
                                {"web_search_used", "web_search_retry"},
                                {"web_search_used", "web_search_retry"}),
                        Append(calls, "name_retry"))
          ELSE IF request.retry_status \notin RetryableStatuses
          THEN Raised(request.retry_status, Append(calls, "name_retry"))
          ELSE Returned(fallback, Append(calls, "name_retry"))
     ELSE Returned(fallback, calls)

\* _extract_person_fields
extract_person_fields(request) ==
  LET image_only_fields == request.image_fields
      merged_fields == merge_extracted_fields(request.web_fields, image_only_fields)
      name_query == best_name_query(merged_fields, image_only_fields)
  IN IF request.image_status # 0 THEN Raised(request.image_status, <<"image">>)
     ELSE IF ~request.web_search
     THEN Returned(Payload(image_only_fields, {"web_search_used"}, {}), <<"image">>)
     ELSE IF request.web_status # 0
     THEN web_search_failed(request, request.web_status, <<"image", "web">>)
     ELSE IF needs_name_follow_up(merged_fields) /\ name_query # ""
     THEN IF request.follow_up_status # 0
          THEN web_search_failed(request, request.follow_up_status,
                                 <<"image", "web", "name_follow_up">>)
          ELSE Returned(Payload(merge_extracted_fields(request.name_fields, merged_fields),
                                {"web_search_used"}, {"web_search_used"}),
                        <<"image", "web", "name_follow_up">>)
     ELSE Returned(Payload(merged_fields, {"web_search_used"}, {"web_search_used"}),
                   <<"image", "web">>)

----------------------------------------------------------------------------
\* storage.py and the (de)serialisation of models.py.  A file is the value
\* written to it: the JSON payload, or the rows of the two CSV files.  A
\* finite float is written and parsed back exactly, so a weight or context
\* value in a file is the number itself; names hold no delimiter.

DISTANCE_WEIGHT_MODEL == "distance_v2"

\* The fields the dataclass PersonNode declares, as far as the model keeps
\* them: what asdict() writes and what the CSV columns hold.
DeclaredFields ==
  {"id", "schools", "employers", "location", "tier", "dependency_weight", "decision_nodes",
   "platforms", "societies", "ecosystems", "family_friends_links"}

\* PersonNode.to_dict
to_dict(person) == [f \in DeclaredFields |-> person[f]]

\* payload.get(key, []) for a list-valued key.
GetList(payload, key) == IF key \in DOMAIN payload THEN payload[key] ELSE {}

\* PersonNode.from_dict: family_friends_links, or when it is empty the legacy
\* family_links and close_connections; the legacy keys are dropped.
from_dict(payload) ==
  LET links == GetList(payload, "family_friends_links")
      family_friends_links ==
        IF links # {} THEN links
        ELSE GetList(payload, "family_links") \cup GetList(payload, "close_connections")
  IN [PersonNode(payload.id, {}, {}, family_friends_links) EXCEPT
        !.schools = payload.schools, !.employers = payload.employers,
        !.location = payload.location, !.tier = payload.tier,
        !.dependency_weight = payload.dependency_weight,
        !.decision_nodes = payload.decision_nodes, !.platforms = payload.platforms,
        !.societies = payload.societies, !.ecosystems = payload.ecosystems]

\* The PersonNode load_graph_csv builds from a row of the nodes file.
from_row(row) ==
  LET links == GetList(row, "family_friends_links")
      family_friends_links ==
        IF links # {} THEN links
        ELSE GetList(row, "family_links") \cup GetList(row, "close_connections")
  IN [PersonNode(row.id, {}, {}, family_friends_links) EXCEPT
        !.schools = row.schools, !.employers = row.employers,
        !.location = row.location, !.tier = row.tier,
        !.dependency_weight = row.dependency_weight,
        !.decision_nodes = row.decision_nodes, !.platforms = row.platforms,
        !.societies = row.societies, !.ecosystems = row.ecosystems]

\* The edge entries both formats write: one per (source, target) of adjacency.
EdgeRows(g) ==
  {[source |-> e[1], target |-> e[2], weight |-> g.adjacency[e[1]][e[2]],
    contexts |-> edge_contexts_of(g, e[1], e[2])] : e \in Edges(g)}

\* save_graph_json
save_graph_json(g) ==
  [edge_weight_model |-> DISTANCE_WEIGHT_MODEL,
   people |-> {to_dict(g.people[id]) : id \in DOMAIN g.people},
   edges |-> EdgeRows(g)]

\* save_graph_csv: the rows of the nodes file and of the edges file.
save_graph_csv(g) ==
  [nodes |-> {to_dict(g.people[id]) : id \in DOMAIN g.people},
   edges |-> EdgeRows(g)]

\* _identity_weight
identity_weight(weight) == weight

\* _looks_like_distance_weights; every weight of the model is an integer.
looks_like_distance_weights(weights) ==
  \A weight \in weights : ~(weight < MIN_DISTANCE \/ weight > MAX_DISTANCE)

\* _should_convert_legacy_csv_weights
should_convert_legacy_csv_weights(weights) ==
  IF weights = {} THEN FALSE ELSE ~looks_like_distance_weights(weights)

\* round(n / d) for d > 0: to the nearest integer, a half to the even one.
RoundHalfEven(n, d) ==
  LET q == n \div d
      r == n % d
  IN IF 2 * r < d THEN q
     ELSE IF 2 * r > d THEN q + 1
     ELSE IF q % 2 = 0 THEN q ELSE q + 1

\* The legacy conversion that truncates the raw distance where the code rounds.
legacy_strength_to_distance_truncated(weights, weight) ==
  LET finite_weights == {w \in weights : w > 0}
      max_strength == IF finite_weights = {} THEN 0 ELSE Max(finite_weights)
      span == MAX_DISTANCE - MIN_DISTANCE
  IN IF max_strength <= 0 THEN MAX_DISTANCE
     ELSE IF weight <= 0 THEN MAX_DISTANCE
     ELSE LET truncated == (MAX_DISTANCE * max_strength - weight * span) \div max_strength
          IN max2(MIN_DISTANCE, min2(MAX_DISTANCE, truncated))

\* The function _legacy_strength_to_distance_converter returns for these
\* weights, applied to weight.
legacy_strength_to_distance(weights, weight) ==
  LET finite_weights == {w \in weights : w > 0}
      max_strength == IF finite_weights = {} THEN 0 ELSE Max(finite_weights)
      span == MAX_DISTANCE - MIN_DISTANCE
  IN IF max_strength <= 0 THEN MAX_DISTANCE
     ELSE IF weight <= 0 THEN MAX_DISTANCE
     ELSE LET rounded == RoundHalfEven(MAX_DISTANCE * max_strength - weight * span, max_strength)
          IN max2(MIN_DISTANCE, min2(MAX_DISTANCE, rounded))

\* The add_person calls of a load, one per person.
RECURSIVE load_people(_, _)
load_people(g, persons) ==
  IF persons = {} THEN Return(g)
  ELSE LET person == CHOOSE x \in persons : TRUE
           added == add_person(g, person, FALSE)
       IN IF added.err # "" THEN added ELSE load_people(added.g, persons \ {person})

\* The add_connection calls of a load, one per edge row, with symmetric=False;
\* convert tells whether the legacy converter is applied.
RECURSIVE load_edges(_, _, _, _)
load_edges(g, edge_rows, weights, convert) ==
  IF edge_rows = {} THEN Return(g)
  ELSE LET row == CHOOSE x \in edge_rows : TRUE
           weight == IF convert THEN legacy_strength_to_distance(weights, row.weight)
                     ELSE identity_weight(row.weight)
           added == add_connection(g, row.source, row.target, Fin(weight),
                                   [k \in DOMAIN row.contexts |-> Fin(row.contexts[k])], FALSE)
       IN IF added.err # "" THEN added
          ELSE load_edges(added.g, edge_rows \ {row}, weights, convert)

\* load_graph_json on the payload of an existing file.
load_graph_json(data) ==
  LET loaded == load_people(EmptyGraph, {from_dict(payload) : payload \in data.people})
      weights == {row.weight : row \in data.edges}
      convert_legacy_strength == data.edge_weight_model # DISTANCE_WEIGHT_MODEL
  IN IF loaded.err # "" THEN loaded
     ELSE load_edges(loaded.g, data.edges, weights, convert_legacy_strength)

\* load_graph_csv on the rows of two existing files.
load_graph_csv(files) ==
  LET loaded == load_people(EmptyGraph, {from_row(row) : row \in files.nodes})
      weights == {row.weight : row \in files.edges}
  IN IF loaded.err # "" THEN loaded
     ELSE load_edges(loaded.g, files.edges, weights, should_convert_legacy_csv_weights(weights))

----------------------------------------------------------------------------
\* The store specification: the graph operations called in any order.

\* The graph g becomes the state, and the call is recorded in last.
Becomes(g, call) ==
  /\ people' = g.people
  /\ adjacency' = g.adjacency
  /\ edge_contexts' = g.edge_contexts
  /\ max_weight' = g.max_weight
  /\ max_weight_stale' = g.max_weight_stale
  /\ last' = call

\* The model keeps weights and context values within its bounds.
WithinBounds(g) ==
  /\ \A s \in DOMAIN g.adjacency : \A t \in DOMAIN g.adjacency[s] :
        g.adjacency[s][t] <= MaxWeight
  /\ \A k \in DOMAIN g.edge_contexts : \A n \in DOMAIN g.edge_contexts[k] :
        g.edge_contexts[k][n] <= MaxContext

\* The arguments the store specification passes to add_connection: calls on
\* a and b in both directions, symmetric or not, one-way calls from b to c,
\* and calls that must fail.
WeightDeltas == {Fin(-1), Fin(1), Fin(2)}

ContextArgs == {EmptyMap, [n \in ContextLabels |-> Fin(1)]}

ConnectionCalls ==
  {<<"a", "b", TRUE>>, <<"a", "b", FALSE>>, <<"b", "a", TRUE>>, <<"b", "a", FALSE>>,
   <<"b", "c", FALSE>>}

InvalidConnectionArgs ==
  {<<"a", "a", Fin(1), EmptyMap, TRUE>>,
   <<"a", "b", NaN, EmptyMap, TRUE>>,
   <<"a", "b", Inf, [n \in ContextLabels |-> Fin(1)], FALSE>>,
   <<"a", "b", Fin(1), [n \in ContextLabels |-> Inf], TRUE>>,
   <<"b", "c", Fin(2), [n \in ContextLabels |-> NaN], TRUE>>}

\* The last call: the operation, the exception it raised ("" for none), its
\* symmetric (add_connection) or overwrite (upsert) flag, a note on what the
\* call met, for a remove_person or add_connection that returned normally
\* its arguments, for an upsert the person's id and the map returned, and
\* for a shortest-path query its endpoints and the PathResult.
NoCall ==
  [op |-> "init", err |-> "", flag |-> FALSE, note |-> "", a |-> "", b |-> "", delta |-> 0,
   distances |-> EmptyMap, top_k |-> NoTopK, result |-> NoResult, candidate |-> NoCandidate,
   rows |-> {}, criteria |-> EmptyMap, matches |-> {}, points |-> EmptyMap,
   request |-> EmptyMap, payload |-> EmptyMap, calls |-> <<>>]

Call(op, err, flag, note) == [NoCall EXCEPT !.op = op, !.err = err, !.flag = flag, !.note = note]

\* A call that returned normally, with the ids and the delta it was given.
CallOn(op, flag, note, a, b, delta) ==
  [NoCall EXCEPT !.op = op, !.flag = flag, !.note = note, !.a = a, !.b = b, !.delta = delta]

\* What a successful add_connection met: a stored edge it deleted, or, in a
\* symmetric call, two directions that held different weights.
ConnectionNote(g, a, b, wd, symmetric) ==
  IF \/ (HasEdge(g, a, b) /\ get_edge_weight(g, a, b) + wd <= 0)
     \/ (symmetric /\ HasEdge(g, b, a) /\ get_edge_weight(g, b, a) + wd <= 0)
  THEN "deleted"
  ELSE IF symmetric /\ get_edge_weight(g, a, b) # get_edge_weight(g, b, a)
  THEN "unequal"
  ELSE ""

\* What a successful remove_person met: edges into and out of the person.
RemovalNote(g, person_id) ==
  IF /\ \E t \in Ids : HasEdge(g, person_id, t)
     /\ \E s \in Ids : HasEdge(g, s, person_id)
  THEN "incident"
  ELSE ""

Init ==
  /\ people = EmptyMap
  /\ adjacency = EmptyMap
  /\ edge_contexts = EmptyMap
  /\ max_weight = 0
  /\ max_weight_stale = FALSE
  /\ last = NoCall

\* What an add_person met: "differs" when the id was stored with a record
\* other than the one given.
PersonNote(g, person) ==
  IF person.id \in DOMAIN g.people /\ g.people[person.id] # person THEN "differs" ELSE ""

AddPerson(person, overwrite) ==
  \E r \in {add_person(Graph, person, overwrite)} :
     Becomes(r.g, [Call("add_person", r.err, overwrite, PersonNote(Graph, person))
                     EXCEPT !.a = person.id])

RemovePerson(person_id) ==
  \E r \in {remove_person(Graph, person_id)} :
     Becomes(r.g, IF r.err = ""
                  THEN CallOn("remove_person", FALSE, RemovalNote(Graph, person_id), person_id, "", 0)
                  ELSE Call("remove_person", r.err, FALSE, ""))

AddConnection(a, b, weight_delta, contexts, symmetric) ==
  \E r \in {add_connection(Graph, a, b, weight_delta, contexts, symmetric)} :
     Becomes(r.g, IF r.err = ""
                     THEN CallOn("add_connection", symmetric,
                                 ConnectionNote(Graph, a, b, weight_delta.v, symmetric),
                                 a, b, weight_delta.v)
                     ELSE Call("add_connection", r.err, symmetric, ""))

\* What a remove_connection met: "absent" when the call addressed no stored
\* edge although edges are stored.
DisconnectionNote(g, a, b, symmetric) ==
  IF /\ ~HasEdge(g, a, b)
     /\ ~(symmetric /\ HasEdge(g, b, a))
     /\ Edges(g) # {}
  THEN "absent"
  ELSE ""

RemoveConnection(a, b, symmetric) ==
  \E r \in {remove_connection(Graph, a, b, symmetric)} :
     Becomes(r.g, [Call("remove_connection", r.err, symmetric,
                        DisconnectionNote(Graph, a, b, symmetric))
                     EXCEPT !.a = a, !.b = b])

MaxWeightRead ==
  \E r \in {max_weight_call(Graph)} : Becomes(r.g, Call("max_weight", "", FALSE, ""))

Next ==
  \/ \E person \in StorePersons, overwrite \in BOOLEAN : AddPerson(person, overwrite)
  \/ \E person_id \in Ids : RemovePerson(person_id)
  \/ \E c \in ConnectionCalls, wd \in WeightDeltas, ctx \in ContextArgs :
       /\ WithinBounds(add_connection(Graph, c[1], c[2], wd, ctx, c[3]).g)
       /\ AddConnection(c[1], c[2], wd, ctx, c[3])
  \/ \E x \in InvalidConnectionArgs : AddConnection(x[1], x[2], x[3], x[4], x[5])
  \/ \E c \in ConnectionCalls \cup {<<"c", "c", TRUE>>} : RemoveConnection(c[1], c[2], c[3])
  \/ MaxWeightRead

Spec == Init /\ [][Next]_vars

----------------------------------------------------------------------------
\* The upsert specification: people are upserted with automatic edges,
\* removed, and tied by hand, in any order.

\* The reference date of every call: 1 January of year 27 of the day count.
Today == 26 * 365 + 1

\* The people upserted: a naming b as a close connection, a without any
\* attribute, and b and c sharing employers and a location with a.
UpsertPersons ==
  {[PersonNode("a", {"b"}, {}, {}) EXCEPT !.employers = {"e1", "e2"}, !.location = "nyc"],
   PersonNode("a", {}, {}, {}),
   [PersonNode("b", {}, {}, {}) EXCEPT !.employers = {"e1"}, !.location = "nyc"],
   [PersonNode("c", {}, {}, {}) EXCEPT !.employers = {"e1", "e2"}, !.location = "nyc"]}

TopKs == {NoTopK, TopK(-1), TopK(0), TopK(1), TopK(2)}

\* The two iteration orders of graph.people the specification tries.
Orders == {[i \in Ids |-> CASE i = "a" -> 1 [] i = "b" -> 2 [] OTHER -> 3],
           [i \in Ids |-> CASE i = "a" -> 3 [] i = "b" -> 2 [] OTHER -> 1]}

\* The orders that can tell calls with this top_k apart: the order breaks
\* ties only where a positive top_k cuts the sorted list.
OrdersFor(top_k) ==
  IF top_k # NoTopK /\ top_k[1] > 0 THEN Orders
  ELSE {CHOOSE order \in Orders : order["a"] = 1}

\* What an upsert met: a new person, a replaced person, or a replaced
\* person holding an edge with someone the returned map leaves out.
UpsertNote(g, person, distances) ==
  IF person.id \notin DOMAIN g.people THEN "inserted"
  ELSE IF \E o \in Ids \ DOMAIN distances :
            HasEdge(g, person.id, o) \/ HasEdge(g, o, person.id)
  THEN "cleared"
  ELSE "replaced"

Upsert(person, overwrite, top_k, order) ==
  \E r \in {upsert_person_with_auto_edges(Graph, person, overwrite, top_k, Today, order)} :
     Becomes(r.g, [NoCall EXCEPT !.op = "upsert", !.err = r.err, !.flag = overwrite,
                                 !.note = UpsertNote(Graph, person, r.distances),
                                 !.a = person.id, !.distances = r.distances,
                                 !.top_k = top_k])

\* A one-way tie of weight 3 added by hand where none is stored.
ManualTie(a, b, contexts) ==
  /\ ~HasEdge(Graph, a, b)
  /\ AddConnection(a, b, Fin(3), contexts, FALSE)

UpsertNext ==
  \/ \E person \in UpsertPersons, overwrite \in BOOLEAN, top_k \in TopKs :
       \E order \in OrdersFor(top_k) : Upsert(person, overwrite, top_k, order)
  \/ \E person_id \in Ids : RemovePerson(person_id)
  \/ \E c \in {<<"a", "c">>, <<"c", "b">>}, ctx \in ContextArgs : ManualTie(c[1], c[2], ctx)

SpecUpsert == Init /\ [][UpsertNext]_vars

----------------------------------------------------------------------------
\* The inference specification: edge_distance_value is applied to a pair of
\* profiles, a as new_person and b as other_person, on a reference date.

Year(n) == n * 365

\* The decision nodes of a: none, a tenure at org1 since year 25, a tenure
\* at org1 from year 15 to year 20, or two tenures at org1 and one at org2.
NewDecisionNodes ==
  {{}, {DecisionNode("org1", Year(25), 0)}, {DecisionNode("org1", Year(15), Year(20))},
   {DecisionNode("org1", Year(25), 0), DecisionNode("org1", Year(5), Year(6)),
    DecisionNode("org2", Year(11), Year(26))}}

\* The decision nodes of b: a tenure at org1 since year 24, a tenure at
\* org1 from year 10 to year 12, or both and a tenure at org2.
OtherDecisionNodes ==
  {{DecisionNode("org1", Year(24), 0)}, {DecisionNode("org1", Year(10), Year(12))},
   {DecisionNode("org1", Year(24), 0), DecisionNode("org1", Year(10), Year(12)),
    DecisionNode("org2", Year(12), Year(13))}}

NewProfiles ==
  {[PersonNode("a", close, links, {}) EXCEPT
      !.employers = employers,
      !.schools = IF study THEN {"s1", "s2", "s3"} ELSE {},
      !.ecosystems = IF study THEN {"x1", "x2", "x3"} ELSE {},
      !.location = IF home THEN "nyc" ELSE "",
      !.platforms = IF home THEN {"p1", "p2", "p3"} ELSE {},
      !.family = IF home THEN "smith" ELSE "",
      !.decision_nodes = nodes,
      !.societies = IF club THEN [n \in {"c1", "c2", "c3"} |-> 1] ELSE EmptyMap,
      !.tier = tier] :
     close \in {{}, {"b"}}, links \in {{}, {"b"}},
     employers \in {{}, {"e1"}, {"e1", "e2", "e3"}},
     study \in BOOLEAN, home \in BOOLEAN, club \in BOOLEAN,
     nodes \in NewDecisionNodes, tier \in {0, 2, 4}}

OtherProfiles ==
  {[PersonNode("b", close, links, {}) EXCEPT
      !.employers = {"e1", "e2", "e3"},
      !.schools = {"s1", "s2", "s3"},
      !.ecosystems = {"x1", "x2", "x3"},
      !.location = "nyc",
      !.platforms = {"p1", "p2", "p3"},
      !.family = "smith",
      !.decision_nodes = nodes,
      !.societies = [n \in {"c1", "c2", "c3"} |-> 2],
      !.tier = 1] :
     close \in {{}, {"a"}}, links \in {{}, {"a"}}, nodes \in OtherDecisionNodes}

\* The reference dates: 1 January of year 27 and of year 37.
Todays == {Today, Today + Year(10)}

InitInfer ==
  \E new_person \in NewProfiles, other_person \in OtherProfiles :
    LET g == add_person(add_person(EmptyGraph, new_person, FALSE).g, other_person, FALSE).g
    IN /\ people = g.people
       /\ adjacency = g.adjacency
       /\ edge_contexts = g.edge_contexts
       /\ max_weight = g.max_weight
       /\ max_weight_stale = g.max_weight_stale
       /\ last = NoCall

EdgeDistanceValue(today) ==
  \E r \in {edge_distance_value(people["a"], people["b"], today)} :
     Becomes(Graph, [NoCall EXCEPT !.op = "edge_distance_value", !.a = "a", !.b = "b",
                                   !.delta = today, !.candidate = r,
                                   !.points = category_points(people["a"], people["b"], today)])

InferNext == \E today \in Todays : EdgeDistanceValue(today)

SpecInfer == InitInfer /\ [][InferNext]_vars

----------------------------------------------------------------------------
\* The storage specification: three people are tied, and the graph is saved
\* and loaded back, as JSON or as CSV; the loaded graph replaces the graph.

StoragePersons ==
  {PersonNode("a", {}, {}, {}),
   [PersonNode("b", {}, {}, {"a"}) EXCEPT
      !.employers = {"e1"}, !.societies = [n \in {"c1"} |-> 2], !.platforms = {"p1"},
      !.tier = 2, !.dependency_weight = 2,
      !.decision_nodes = {DecisionNode("org1", Year(24), 0)}],
   [PersonNode("c", {}, {}, {}) EXCEPT !.schools = {"s1", "s2"}, !.location = "nyc"]}

InitStorage ==
  \E loaded \in {load_people(EmptyGraph, StoragePersons)} :
     /\ people = loaded.g.people
     /\ adjacency = loaded.g.adjacency
     /\ edge_contexts = loaded.g.edge_contexts
     /\ max_weight = loaded.g.max_weight
     /\ max_weight_stale = loaded.g.max_weight_stale
     /\ last = NoCall

\* The ties of the storage specification, as (a, b, weight, contexts,
\* symmetric): weights within 1..12 and beyond, one-way and symmetric.
StorageTies ==
  {<<"a", "b", 2, [n \in ContextLabels |-> Fin(1)], TRUE>>,
   <<"a", "b", 12, EmptyMap, FALSE>>,
   <<"b", "c", 1, EmptyMap, TRUE>>,
   <<"b", "c", 13, EmptyMap, FALSE>>,
   <<"c", "a", 24, [n \in ContextLabels |-> Fin(3)], FALSE>>,
   <<"c", "a", 5, EmptyMap, FALSE>>}

StorageTie(a, b, weight, contexts, symmetric) ==
  /\ ~HasEdge(Graph, a, b) /\ ~HasEdge(Graph, b, a)
  /\ AddConnection(a, b, Fin(weight), contexts, symmetric)

\* What the last reload met: "legacy" when some stored weight lay outside
\* MIN_DISTANCE..MAX_DISTANCE, "asymmetric" when some edge had no reverse.
StorageNote(g) ==
  IF \E e \in Edges(g) : g.adjacency[e[1]][e[2]] > MAX_DISTANCE THEN "legacy"
  ELSE IF \E e \in Edges(g) : ~HasEdge(g, e[2], e[1]) THEN "asymmetric"
  ELSE ""

ReloadJson ==
  \E r \in {load_graph_json(save_graph_json(Graph))} :
     Becomes(r.g, Call("reload_json", r.err, FALSE, StorageNote(Graph)))

ReloadCsv ==
  \E r \in {load_graph_csv(save_graph_csv(Graph))} :
     Becomes(r.g, Call("reload_csv", r.err, FALSE, StorageNote(Graph)))

StorageNext ==
  \/ \E t \in StorageTies : StorageTie(t[1], t[2], t[3], t[4], t[5])
  \/ \E c \in {<<"a", "b">>, <<"c", "a">>} : RemoveConnection(c[1], c[2], FALSE)
  \/ ReloadJson
  \/ ReloadCsv

SpecStorage == InitStorage /\ [][StorageNext]_vars

----------------------------------------------------------------------------
\* The load specification: a file written by hand or by an earlier version
\* is loaded, as JSON or as CSV, into the new graph the load creates.

\* The directed pairs an edge file may hold a row for, and the weights of
\* the rows: strengths, distances and a non-positive number.
FilePairs == {<<"a", "b">>, <<"a", "c">>, <<"b", "a">>}

FileWeights == {-1, 1, 2, 3, 6, 9, 12, 13, 24}

\* The value of the key edge_weight_model; "" stands for a payload without
\* the key.
WeightModels == {"", DISTANCE_WEIGHT_MODEL}

FileRows(pairs, weight_of) ==
  {[source |-> e[1], target |-> e[2], weight |-> weight_of[e], contexts |-> EmptyMap] : e \in pairs}

FilePeople == {to_dict(person) : person \in StoragePersons}

LoadJson(edge_weight_model, edge_rows) ==
  \E r \in {load_graph_json([edge_weight_model |-> edge_weight_model,
                            people |-> FilePeople, edges |-> edge_rows])} :
     Becomes(r.g, [Call("load_json", r.err, FALSE, edge_weight_model) EXCEPT !.rows = edge_rows])

LoadCsv(edge_rows) ==
  \E r \in {load_graph_csv([nodes |-> FilePeople, edges |-> edge_rows])} :
     Becomes(r.g, [Call("load_csv", r.err, FALSE, "") EXCEPT !.rows = edge_rows])

LoadNext ==
  /\ last.op = "init"
  /\ \E pairs \in SUBSET FilePairs :
        \E weight_of \in [pairs -> FileWeights] :
           \/ \E edge_weight_model \in WeightModels :
                 LoadJson(edge_weight_model, FileRows(pairs, weight_of))
           \/ LoadCsv(FileRows(pairs, weight_of))

SpecLoad == Init /\ [][LoadNext]_vars

----------------------------------------------------------------------------
\* The filter specification: a graph of up to three people is queried with
\* filter_people.

\* The profiles a person of the filter specification may have.
FilterProfiles(id) ==
  {PersonNode(id, {}, {}, {}),
   [PersonNode(id, {}, {}, {}) EXCEPT !.schools = {"Stanford"}, !.tier = 1],
   [PersonNode(id, {}, {}, {}) EXCEPT !.schools = {"Stanford"}, !.tier = 2],
   [PersonNode(id, {}, {}, {}) EXCEPT
      !.schools = {"MIT"}, !.tier = 1, !.societies = [n \in {"ivy_club"} |-> 2]],
   [PersonNode(id, {}, {}, {}) EXCEPT
      !.schools = {"MIT", "Stanford"}, !.location = "nyc",
      !.societies = [n \in {"ivy_club", "other"} |-> 3]]}

InitFilter ==
  \E ids \in SUBSET Ids :
     \E profile \in [ids -> UNION {FilterProfiles(id) : id \in Ids}] :
        /\ \A id \in ids : profile[id].id = id
        /\ \E loaded \in {load_people(EmptyGraph, {profile[id] : id \in ids})} :
              /\ people = loaded.g.people
              /\ adjacency = loaded.g.adjacency
              /\ edge_contexts = loaded.g.edge_contexts
              /\ max_weight = loaded.g.max_weight
              /\ max_weight_stale = loaded.g.max_weight_stale
        /\ last = NoCall

\* The keyword arguments the filter specification gives to filter_people.
FilterCriteria ==
  {EmptyMap,
   [a \in {"schools"} |-> StrValue("Stanford")],
   [a \in {"schools"} |-> IntValue(1)],
   [a \in {"tier"} |-> IntValue(1)],
   [a \in {"tier"} |-> StrValue("1")],
   [a \in {"location"} |-> StrValue("nyc")],
   [a \in {"location"} |-> StrValue("")],
   [a \in {"societies"} |-> StrValue("ivy_club")],
   [a \in {"societies"} |-> IntValue(2)],
   [a \in {"societies"} |-> DictValue([n \in {"ivy_club"} |-> 2])],
   [a \in {"societies"} |-> DictValue([n \in {"ivy_club", "other"} |-> 3])],
   [a \in {"societies"} |-> DictValue(EmptyMap)],
   [a \in {"schools", "tier"} |-> IF a = "schools" THEN StrValue("Stanford") ELSE IntValue(1)],
   [a \in {"schools", "societies"} |->
      IF a = "schools" THEN StrValue("MIT") ELSE StrValue("other")]}

FilterPeople(criteria) ==
  \E r \in {filter_people(Graph, criteria)} :
     Becomes(Graph, [Call("filter_people", "", FALSE, "") EXCEPT
                       !.criteria = criteria, !.matches = r])

FilterNext == \E criteria \in FilterCriteria : FilterPeople(criteria)

SpecFilter == InitFilter /\ [][FilterNext]_vars

----------------------------------------------------------------------------
\* The extraction specification: _extract_person_fields is called once with
\* a request and the outcomes of the calls to the extraction service.

ImageFields ==
  {ExtractedFields(id, name, location, {}) :
     id \in {"", "jane_doe"}, name \in {"", "Jane Doe"}, location \in {"", "sf"}}

WebFields == {ExtractedFields("", "", "", {}), ExtractedFields("jane_doe", "Jane Doe", "sf", {"e1"})}

NameFields == {ExtractedFields("jane_doe", "Jane Doe", "nyc", {"e2"})}

Statuses == {0, 400, 500, 502}

ExtractRequests ==
  [image_fields : ImageFields, image_status : {0, 500}, web_search : BOOLEAN,
   name_hint : {"", "Jane Doe"}, web_fields : WebFields, web_status : Statuses,
   name_fields : NameFields, follow_up_status : Statuses, retry_status : Statuses]

ExtractPersonFields(request) ==
  \E r \in {extract_person_fields(request)} :
     Becomes(Graph, [NoCall EXCEPT !.op = "extract_person_fields",
                                   !.err = IF r.status = 0 THEN "" ELSE "HTTPException",
                                   !.delta = r.status, !.request = request,
                                   !.payload = r.payload, !.calls = r.calls])

ExtractNext ==
  /\ last.op = "init"
  /\ \E request \in ExtractRequests : ExtractPersonFields(request)

SpecExtract == Init /\ [][ExtractNext]_vars

----------------------------------------------------------------------------
\* The path specification: four people are tied by edges drawn from a fixed
\* set, and shortest paths are queried between them.

PathIds == {"a", "b", "c", "d"}

RECURSIVE add_people(_, _)
add_people(g, ids) ==
  IF ids = {} THEN g
  ELSE LET id == CHOOSE x \in ids : TRUE
       IN add_people(add_person(g, PersonNode(id, {}, {}, {}), FALSE).g, ids \ {id})

InitPath ==
  LET g == add_people(EmptyGraph, PathIds)
  IN /\ people = g.people
     /\ adjacency = g.adjacency
     /\ edge_contexts = g.edge_contexts
     /\ max_weight = g.max_weight
     /\ max_weight_stale = g.max_weight_stale
     /\ last = NoCall

\* The ties of the path specification, as (a, b, weight, symmetric): the five
\* symmetric edges a-b=5, b-c=3, a-c=1, c-d=4, b-d=2 and alternatives to them.
PathTies ==
  {<<"a", "b", 5, TRUE>>, <<"a", "b", 1, TRUE>>,
   <<"b", "c", 3, TRUE>>,
   <<"a", "c", 1, TRUE>>, <<"a", "c", 5, FALSE>>,
   <<"c", "d", 4, TRUE>>, <<"c", "d", 2, FALSE>>,
   <<"b", "d", 2, TRUE>>, <<"d", "b", 4, FALSE>>}

PathTie(a, b, weight, symmetric) ==
  /\ ~HasEdge(Graph, a, b) /\ ~HasEdge(Graph, b, a)
  /\ AddConnection(a, b, Fin(weight), EmptyMap, symmetric)

\* The strategy argument: "" when the caller leaves it out.
StrategyArgs == {""} \cup CostStrategy

PathQueries ==
  {<<"a", "d">>, <<"d", "a">>, <<"a", "a">>, <<"a", "z">>, <<"z", "d">>}

\* The people replaced in the path specification: b at the lowest tier with
\* the largest dependency weight, c at the highest tier with the smallest.
PathPersons ==
  {[PersonNode("b", {}, {}, {}) EXCEPT !.tier = 4, !.dependency_weight = 5],
   [PersonNode("c", {}, {}, {}) EXCEPT !.tier = 1, !.dependency_weight = 1]}

\* add_person(person, overwrite=True) on a person of the graph.
ReplacePerson(person) ==
  /\ people[person.id] # person
  /\ AddPerson(person, TRUE)

ShortestPath(start, goal, strategy_arg) ==
  \E r \in {dijkstra_shortest_path(Graph, start, goal,
                                     IF strategy_arg = "" THEN DYNAMIC ELSE strategy_arg,
                                     fixed_high_default)} :
     Becomes(r.g, [NoCall EXCEPT !.op = "shortest_path", !.err = r.err,
                                 !.note = strategy_arg, !.a = start, !.b = goal,
                                 !.result = r.result])

PathNext ==
  \/ \E t \in PathTies : PathTie(t[1], t[2], t[3], t[4])
  \/ \E q \in PathQueries, strategy_arg \in StrategyArgs : ShortestPath(q[1], q[2], strategy_arg)
  \/ \E person \in PathPersons : ReplacePerson(person)

SpecPath == InitPath /\ [][PathNext]_vars

----------------------------------------------------------------------------
\* The frame specification: a, b and d are tied among themselves, c and e
\* between themselves only, and the shortest path from a to d is queried.

FrameIds == {"a", "b", "c", "d", "e"}

InitFrame ==
  \E g \in {add_people(EmptyGraph, FrameIds)} :
     /\ people = g.people
     /\ adjacency = g.adjacency
     /\ edge_contexts = g.edge_contexts
     /\ max_weight = g.max_weight
     /\ max_weight_stale = g.max_weight_stale
     /\ last = NoCall

\* The ties among a, b and d, as (a, b, weight), each added once.
NearTies == {<<"a", "b", 5>>, <<"b", "d", 5>>, <<"a", "d", 1>>, <<"a", "d", 4>>, <<"b", "d", 2>>}

NearTie(a, b, weight) ==
  /\ ~HasEdge(Graph, a, b) /\ ~HasEdge(Graph, b, a)
  /\ AddConnection(a, b, Fin(weight), EmptyMap, TRUE)

\* The deltas added to the edge between c and e, which stays a distance of
\* at most MAX_DISTANCE.
FarDeltas == {2, 9}

FarTie(weight_delta, symmetric) ==
  /\ get_edge_weight(Graph, "c", "e") + weight_delta <= MAX_DISTANCE
  /\ get_edge_weight(Graph, "e", "c") + weight_delta <= MAX_DISTANCE
  /\ AddConnection("c", "e", Fin(weight_delta), EmptyMap, symmetric)

FrameNext ==
  \/ \E t \in NearTies : NearTie(t[1], t[2], t[3])
  \/ \E weight_delta \in FarDeltas, symmetric \in BOOLEAN : FarTie(weight_delta, symmetric)
  \/ RemoveConnection("c", "e", TRUE)
  \/ \E strategy_arg \in StrategyArgs : ShortestPath("a", "d", strategy_arg)

SpecFrame == InitFrame /\ [][FrameNext]_vars

----------------------------------------------------------------------------
\* ingestion.py: GraphIngestionService.

\* PersonEvent and EdgeEvent, as records of one shape; the fields of the
\* other class hold fillers that nothing reads.
PersonEvent(person, overwrite, auto_top_k) ==
  [kind |-> "PersonEvent", person |-> person, overwrite |-> overwrite,
   auto_top_k |-> auto_top_k, source |-> "", target |-> "", weight_delta |-> Fin(0),
   contexts |-> EmptyMap, symmetric |-> TRUE]

EdgeEvent(source, target, weight_delta, contexts, symmetric) ==
  [kind |-> "EdgeEvent", person |-> PersonNode("", {}, {}, {}), overwrite |-> FALSE,
   auto_top_k |-> NoTopK, source |-> source, target |-> target,
   weight_delta |-> weight_delta, contexts |-> contexts, symmetric |-> symmetric]

\* An object that is neither a PersonEvent nor an EdgeEvent.
OtherEvent == [EdgeEvent("", "", Fin(0), EmptyMap, TRUE) EXCEPT !.kind = "object"]

\* GraphIngestionService.__init__: the settings of the service.
GraphIngestionService(auto_connect_people, auto_top_k) ==
  [auto_connect_people |-> auto_connect_people, auto_top_k |-> auto_top_k]

\* The iteration order of graph.people in the calls of the service.
IngestOrder == CHOOSE order \in Orders : order["a"] = 1

\* _apply_event: the graph after the call and the exception raised.
apply_event(service, g, event) ==
  IF event.kind = "PersonEvent"
  THEN IF ~service.auto_connect_people
       THEN TheOne({[g |-> added.g, err |-> added.err] :
                      added \in {add_person(g, event.person, event.overwrite)}})
       ELSE TheOne({[g |-> upserted.g, err |-> upserted.err] :
                      upserted \in {upsert_person_with_auto_edges(
                                      g, event.person, event.overwrite,
                                      IF event.auto_top_k # NoTopK THEN event.auto_top_k
                                      ELSE service.auto_top_k,
                                      Today, IngestOrder)}})
  ELSE IF event.kind = "EdgeEvent"
  THEN TheOne({[g |-> connected.g, err |-> connected.err] :
                 connected \in {add_connection(g, event.source, event.target,
                                               event.weight_delta, event.contexts,
                                               event.symmetric)}})
  ELSE [g |-> g, err |-> "TypeError"]

\* apply, from the event at index i on: the graph after the call, the
\* exception raised and the index of the event that raised it (0 for none).
RECURSIVE apply_from(_, _, _, _)
apply_from(service, g, events, i) ==
  IF i > Len(events) THEN [g |-> g, err |-> "", failed |-> 0]
  ELSE TheOne({IF applied.err # ""
               THEN [g |-> applied.g, err |-> applied.err, failed |-> i]
               ELSE apply_from(service, applied.g, events, i + 1) :
                 applied \in {apply_event(service, g, events[i])}})

\* apply
apply(service, g, events) == apply_from(service, g, events, 1)

----------------------------------------------------------------------------
\* The ingestion specification: one batch of events is applied to the
\* empty graph by a service.

\* The longest batch.
MaxEvents == 3

\* The profiles of the events: a without any attribute, and a and b sharing
\* an employer and a location.
IngestPersons ==
  [bare |-> PersonNode("a", {}, {}, {}),
   a |-> [PersonNode("a", {}, {}, {}) EXCEPT !.employers = {"e1", "e2"}, !.location = "nyc"],
   b |-> [PersonNode("b", {}, {}, {}) EXCEPT !.employers = {"e1"}, !.location = "nyc"]]

\* The events of the batches: people inserted and replaced, with and
\* without a top_k of their own, edges between a and b, an edge to a person
\* never stored, and an object of another class.
IngestEvents ==
  {PersonEvent(IngestPersons.bare, FALSE, NoTopK),
   PersonEvent(IngestPersons.a, TRUE, NoTopK),
   PersonEvent(IngestPersons.a, TRUE, TopK(-1)),
   PersonEvent(IngestPersons.b, FALSE, NoTopK),
   PersonEvent(IngestPersons.b, FALSE, TopK(0)),
   EdgeEvent("a", "b", Fin(3), [n \in ContextLabels |-> Fin(1)], TRUE),
   EdgeEvent("a", "b", Fin(-1), EmptyMap, FALSE),
   EdgeEvent("a", "c", Fin(1), EmptyMap, TRUE),
   OtherEvent}

IngestServices ==
  {GraphIngestionService(TRUE, NoTopK), GraphIngestionService(FALSE, NoTopK),
   GraphIngestionService(TRUE, TopK(0))}

\* The batches of at most n events.
RECURSIVE Batches(_)
Batches(n) ==
  IF n = 0 THEN {<<>>}
  ELSE UNION {shorter \cup {Append(batch, event) : batch \in shorter, event \in IngestEvents} :
                shorter \in {Batches(n - 1)}}

\* service.apply(events): the call, its batch and its service are recorded.
Apply(service, events) ==
  \E r \in {apply(service, Graph, events)} :
     Becomes(r.g, [NoCall EXCEPT !.op = "apply", !.err = r.err, !.delta = r.failed,
                                 !.request = [service |-> service, events |-> events]])

IngestNext ==
  /\ last.op = "init"
  /\ \E service \in IngestServices, events \in Batches(MaxEvents) : Apply(service, events)

SpecIngest == Init /\ [][IngestNext]_vars

----------------------------------------------------------------------------
\* What a caller observes.

\* The value max_weight() returns in the current state.
MaxWeightObserved == max_weight_call(Graph).value

\* The largest stored weight, 0 when no edge is stored.
TrueMaxWeight ==
  IF Edges(Graph) = {} THEN 0
  ELSE Max({adjacency[e[1]][e[2]] : e \in Edges(Graph)})

\* The ids a person names in its relationship lists.
RelationshipIds(person) ==
  person.close_connections \cup person.family_links \cup person.family_friends_links

\* Stored weight, 0 for none, that a direction holds after its accumulated
\* weight becomes w.
Stored(w) == IF w > 0 THEN w ELSE 0

----------------------------------------------------------------------------
C2_FailedAddConnectionChangesNothing ==
  [][(last'.op = "add_connection" /\ last'.err # "")
       => /\ people' = people
          /\ adjacency' = adjacency
          /\ edge_contexts' = edge_contexts
          /\ MaxWeightObserved' = MaxWeightObserved]_vars

\* A symmetric add_connection raised UnknownPerson on a graph that holds edges.
C2_Witness ==
  /\ last.op = "add_connection" /\ last.err = "UnknownPerson" /\ last.flag
  /\ Edges(Graph) # {}

\* C3 as stated: after a successful symmetric add_connection(a, b, delta) the
\* two directions hold the same weight, the prior weight plus delta when
\* that is positive and none otherwise.
C3_SymmetricWeightsEqual ==
  [][(last'.op = "add_connection" /\ last'.err = "" /\ last'.flag) =>
     LET a == last'.a
         b == last'.b
     IN /\ get_edge_weight(Graph', a, b) = get_edge_weight(Graph', b, a)
        /\ get_edge_weight(Graph', a, b) = Stored(get_edge_weight(Graph, a, b) + last'.delta)]_vars

\* C3 amended: after a successful symmetric add_connection(a, b, delta) each
\* direction holds its own prior weight plus delta when that is positive and
\* none otherwise; the two are equal when the prior weights were equal.
C3_EachDirectionAccumulates ==
  [][(last'.op = "add_connection" /\ last'.err = "" /\ last'.flag) =>
     LET a == last'.a
         b == last'.b
     IN /\ get_edge_weight(Graph', a, b) = Stored(get_edge_weight(Graph, a, b) + last'.delta)
        /\ get_edge_weight(Graph', b, a) = Stored(get_edge_weight(Graph, b, a) + last'.delta)
        /\ (get_edge_weight(Graph, a, b) = get_edge_weight(Graph, b, a)
              => get_edge_weight(Graph', a, b) = get_edge_weight(Graph', b, a))]_vars

\* A symmetric add_connection succeeded on a pair whose two directions held
\* different weights, and both directions are stored afterwards.
C3_Witness ==
  /\ last.op = "add_connection" /\ last.err = "" /\ last.flag
  /\ last.note = "unequal"
  /\ \E a \in Ids, b \in Ids :
       HasEdge(Graph, a, b) /\ HasEdge(Graph, b, a) /\ adjacency[a][b] # adjacency[b][a]

\* C4: every stored edge weight is strictly positive.
C4_StoredWeightsPositive ==
  \A e \in Edges(Graph) : adjacency[e[1]][e[2]] > 0

\* An add_connection brought a stored edge to a weight <= 0 and deleted it.
C4_Witness ==
  /\ last.op = "add_connection" /\ last.err = ""
  /\ last.note = "deleted"

\* C5: every stored edge and every edge-context entry has its source and
\* its target among the people.
C5_EdgesReferToPeople ==
  /\ \A e \in Edges(Graph) : e[1] \in DOMAIN people /\ e[2] \in DOMAIN people
  /\ \A k \in DOMAIN edge_contexts : k[1] \in DOMAIN people /\ k[2] \in DOMAIN people

\* remove_person removed a person that had edges in both directions, with
\* other people left.
C5_Witness ==
  /\ last.op = "remove_person" /\ last.err = ""
  /\ last.note = "incident"
  /\ DOMAIN people # {}

\* C6: after remove_person(id) returns, no remaining person names id in its
\* relationship lists; when id is absent the call raises UnknownPerson and
\* changes nothing.
C6_RemovedPersonNotReferenced ==
  [][(last'.op = "remove_person") =>
     IF last'.err = ""
     THEN \A p \in DOMAIN people' : last'.a \notin RelationshipIds(people'[p])
     ELSE /\ last'.err = "UnknownPerson"
          /\ Graph' = Graph]_vars

\* C7 as stated: an upsert (overwrite=True) with a negative top_k raises
\* InvalidArgument and leaves people, adjacency and contexts as they were,
\* whether or not the person existed.
C7_NegativeTopKChangesNothing ==
  [][\A person \in UpsertPersons, order \in OrdersFor(TopK(-1)) :
       Upsert(person, TRUE, TopK(-1), order)
         => /\ last'.err = "InvalidArgument"
            /\ people' = people
            /\ adjacency' = adjacency
            /\ edge_contexts' = edge_contexts]_vars

\* The people o for which p holds an edge in either direction.
Incident(p) == {o \in Ids : HasEdge(Graph, p, o) \/ HasEdge(Graph, o, p)}

C9_InsertedPersonEdgesAreReturnedMap ==
  (last.op = "upsert" /\ last.err = "" /\ last.note = "inserted")
    => \A o \in Ids \ {last.a} :
         IF o \in DOMAIN last.distances
         THEN /\ last.distances[o] \in MIN_DISTANCE..MAX_DISTANCE
              /\ get_edge_weight(Graph, last.a, o) = last.distances[o]
              /\ get_edge_weight(Graph, o, last.a) = last.distances[o]
         ELSE ~HasEdge(Graph, last.a, o) /\ ~HasEdge(Graph, o, last.a)

\* An upsert inserted a new person, connected it to one person and left
\* another person of the graph unconnected.
C9_Witness ==
  /\ last.op = "upsert" /\ last.err = "" /\ last.note = "inserted"
  /\ DOMAIN last.distances # {}
  /\ (DOMAIN people) \ ({last.a} \cup DOMAIN last.distances) # {}

\* The directed paths of the graph from s to t that repeat no person.
SimplePaths(g, s, t) ==
  {p \in UNION {[1..n -> PathIds] : n \in 1..Cardinality(PathIds)} :
     /\ p[1] = s /\ p[Len(p)] = t
     /\ \A i, j \in 1..Len(p) : i # j => p[i] # p[j]
     /\ \A i \in 1..(Len(p) - 1) : HasEdge(g, p[i], p[i + 1])}

\* The sum of the stored weights along a path.
RECURSIVE WeightSum(_, _)
WeightSum(g, p) ==
  IF Len(p) < 2 THEN 0 ELSE get_edge_weight(g, p[1], p[2]) + WeightSum(g, Tail(p))

\* C10 as stated: a path returned by a query that names no strategy has, as
\* its sum of edge weights, the minimum of the sums of edge weights over all
\* directed paths from start to goal.
C10_ShortestPathMinimisesWeightSum ==
  (last.op = "shortest_path" /\ last.note = "" /\ last.err = "" /\ last.result.found)
    => WeightSum(Graph, last.result.node_ids)
         = Min({WeightSum(Graph, p) : p \in SimplePaths(Graph, last.a, last.b)})

\* The sum of 1/weight along a path, in units of 1/CostScale.
RECURSIVE InverseWeightSum(_, _)
InverseWeightSum(g, p) ==
  IF Len(p) < 2 THEN 0
  ELSE (CostScale \div get_edge_weight(g, p[1], p[2])) + InverseWeightSum(g, Tail(p))

\* A query that named no strategy returned a path.
DefaultPathReturned ==
  last.op = "shortest_path" /\ last.note = "" /\ last.err = "" /\ last.result.found

\* C11 as stated: in every path a query without a strategy returns, each
\* edge's cost is its stored weight, and total cost and total strength are
\* both the sum of the stored weights along the path.
C11_CostIsWeight ==
  DefaultPathReturned
    => /\ \A i \in 1..Len(last.result.edges) :
            LET edge == last.result.edges[i]
            IN /\ edge.weight = get_edge_weight(Graph, edge.source, edge.target)
               /\ edge.cost = edge.weight * CostScale
       /\ last.result.total_strength = WeightSum(Graph, last.result.node_ids)
       /\ last.result.total_cost = last.result.total_strength * CostScale

\* C12 as stated: in every path a query without a strategy returns, total
\* cost is the sum of 1/weight over the path's edges and total strength is
\* the sum of the weights.
C12_DefaultCostIsInverseWeight ==
  DefaultPathReturned
    => /\ last.result.total_cost = InverseWeightSum(Graph, last.result.node_ids)
       /\ last.result.total_strength = WeightSum(Graph, last.result.node_ids)

WithPerson(g, person) == [g EXCEPT !.people = Put(@, person.id, person)]

\* The strategy a recorded query ran with.
StrategyOf(call) == IF call.note = "" THEN DYNAMIC ELSE call.note

\* C15: the result of a query is the result of the same query on the graph
\* with any person's tier and dependency weight changed and the adjacency
\* left as it is.
C15_ResultIgnoresTierAndDependency ==
  (last.op = "shortest_path" /\ last.err = "")
    => \A person \in PathPersons \cup {PersonNode(id, {}, {}, {}) : id \in PathIds} :
         dijkstra_shortest_path(WithPerson(Graph, person), last.a, last.b,
                                StrategyOf(last), fixed_high_default).result = last.result

\* A query returned a path through b and c while b is at tier 4 with
\* dependency weight 5 and c at tier 1 with dependency weight 1.
C15_Witness ==
  /\ last.op = "shortest_path" /\ last.result.found
  /\ Len(last.result.node_ids) = Cardinality(PathIds)
  /\ people["b"].tier = 4 /\ people["b"].dependency_weight = 5
  /\ people["c"].tier = 1 /\ people["c"].dependency_weight = 1

\* C16: whenever edge_distance_value returns a relationship, its distance is
\* an integer from 1 to 12, at most 2 when the pair is explicit and at least
\* 2 when it is inferred.
C16_DistanceRanges ==
  (last.op = "edge_distance_value" /\ ~last.candidate.none)
    => /\ last.candidate.distance \in 1..12
       /\ last.candidate.explicit => last.candidate.distance <= 2
       /\ ~last.candidate.explicit => last.candidate.distance >= 2

\* An inferred pair came out at distance 2, the closest an inferred pair
\* may be.
C16_Witness ==
  /\ last.op = "edge_distance_value" /\ ~last.candidate.none
  /\ ~last.candidate.explicit /\ last.candidate.distance = 2

\* One of the pair names the other in its close connections or its family
\* links.
ExplicitPair(new_person, other_person) ==
  \/ other_person.id \in new_person.close_connections
  \/ new_person.id \in other_person.close_connections
  \/ other_person.id \in new_person.family_links
  \/ new_person.id \in other_person.family_links

C18_TopKKeepsExplicitAndClosest ==
  (last.op = "upsert" /\ last.err = "" /\ last.top_k # NoTopK)
    => LET new_person == people[last.a]
           k == last.top_k[1]
           value(o) == edge_distance_value(new_person, people[o], Today)
           candidates == {o \in (DOMAIN people) \ {last.a} : ~value(o).none}
           explicit == {o \in candidates : value(o).explicit}
           inferred == candidates \ explicit
           kept == DOMAIN last.distances
       IN /\ explicit \subseteq kept
          /\ kept \subseteq candidates
          /\ Cardinality(kept \cap inferred)
               = min2(Cardinality(inferred), max2(0, k - Cardinality(explicit)))
          /\ \A o \in inferred \ kept, i \in kept \cap inferred :
               value(o).distance >= value(i).distance
          /\ last.a \notin kept
          /\ \A o \in kept : last.distances[o] = value(o).distance

\* With top_k = 1 and two inferred candidates at different distances, the
\* call kept the closer one and left the other out.
C18_Witness ==
  /\ last.op = "upsert" /\ last.err = "" /\ last.top_k = TopK(1)
  /\ DOMAIN people = Ids
  /\ Cardinality(DOMAIN last.distances) = 1
  /\ \A o \in Ids \ {last.a} :
       LET value == edge_distance_value(people[last.a], people[o], Today)
       IN ~value.none /\ ~value.explicit

\* The people and the directed edges of the graph, each edge with its weight
\* and contexts.
Snapshot(p, adj, ctx) ==
  [people |-> p,
   edges |-> UNION {{<<s, t, adj[s][t],
                         IF <<s, t>> \in DOMAIN ctx THEN ctx[<<s, t>>] ELSE EmptyMap>> :
                          t \in DOMAIN adj[s]} : s \in DOMAIN adj}]

\* C19 as stated: saving the graph and loading it back, as JSON and as CSV,
\* raises nothing and yields the same people and the same directed edges
\* with the same weights and contexts.
C19_SaveLoadRoundTrip ==
  [][last'.op \in {"reload_json", "reload_csv"}
       => /\ last'.err = ""
          /\ Snapshot(people', adjacency', edge_contexts')
               = Snapshot(people, adjacency, edge_contexts)]_vars

\* C20: remove_connection raises UnknownPerson and changes nothing when an
\* endpoint is absent; otherwise it raises nothing, and when the graph holds
\* none of the edges the call addresses it leaves adjacency, the contexts and
\* max_weight() as they were; a second identical call changes nothing.
C20_RemoveAbsentEdgeIsNoOp ==
  [][last'.op = "remove_connection"
       => IF last'.a \notin DOMAIN people \/ last'.b \notin DOMAIN people
          THEN /\ last'.err = "UnknownPerson"
               /\ UNCHANGED <<people, adjacency, edge_contexts, max_weight, max_weight_stale>>
          ELSE /\ last'.err = ""
               /\ (/\ ~HasEdge(Graph, last'.a, last'.b)
                   /\ ~(last'.flag /\ HasEdge(Graph, last'.b, last'.a)))
                    => /\ UNCHANGED <<people, adjacency, edge_contexts>>
                       /\ MaxWeightObserved' = MaxWeightObserved
               /\ remove_connection(Graph', last'.a, last'.b, last'.flag) = Return(Graph')]_vars

\* A remove_connection between two existing people that addressed no stored
\* edge, in a graph that holds edges with contexts.
C20_Witness ==
  /\ last.op = "remove_connection"
  /\ last.err = ""
  /\ last.note = "absent"
  /\ edge_contexts # EmptyMap
  /\ MaxWeightObserved > 0

\* C21: add_person with overwrite=False and an id already stored raises
\* DuplicateId and leaves the people, the adjacency and the contexts as they
\* were; every other add_person raises nothing and leaves the id with the
\* given record and an adjacency entry, its stored edges kept.
C21_DuplicateIdChangesNothing ==
  [][last'.op = "add_person"
       => IF last'.a \in DOMAIN people /\ ~last'.flag
          THEN /\ last'.err = "DuplicateId"
               /\ UNCHANGED <<people, adjacency, edge_contexts, max_weight, max_weight_stale>>
          ELSE /\ last'.err = ""
               /\ last'.a \in DOMAIN people'
               /\ last'.a \in DOMAIN adjacency'
               /\ last'.a \in DOMAIN adjacency => adjacency' = adjacency
               /\ edge_contexts' = edge_contexts]_vars

\* An add_person without overwrite that was refused for an id stored with
\* another record and with edges.
C21_Witness ==
  /\ last.op = "add_person"
  /\ last.err = "DuplicateId"
  /\ last.note = "differs"
  /\ adjacency[last.a] # EmptyMap

\* Whether a load treated its file as a legacy one: a JSON payload whose
\* edge_weight_model is not distance_v2, or CSV rows whose weights are not
\* all integers within 1..12.
LegacyLoad(call) ==
  \/ call.op = "load_json" /\ call.note # "distance_v2"
  \/ call.op = "load_csv" /\ \E row \in call.rows : row.weight \notin 1..12

\* x is 12 - 11 * w / m rounded to a nearest integer and clamped to 1..12.
ClampedNearest(w, m, x) ==
  \E r \in -12..12 :
     /\ 2 * Abs((12 * m - 11 * w) - r * m) <= m
     /\ x = max2(1, min2(12, r))

\* C22: a legacy load stores for every row of positive weight w the distance
\* clamp(round(12 - 11 * w / max), 1, 12), max being the largest weight of
\* the file: the result lies within 1..12, the largest weight becomes 1 and
\* a larger weight never becomes a larger distance; any other load stores
\* the weight of every such row as it is.
C22_LegacyWeightsRescaled ==
  [][last'.op \in {"load_json", "load_csv"}
       => LET positive == {row \in last'.rows : row.weight > 0}
              stored(row) == adjacency'[row.source][row.target]
          IN /\ last'.err = ""
             /\ \A row \in positive : row.target \in DOMAIN adjacency'[row.source]
             /\ IF LegacyLoad(last')
                THEN \A row \in positive :
                        /\ ClampedNearest(row.weight, Max({x.weight : x \in positive}), stored(row))
                        /\ stored(row) \in 1..12
                        /\ row.weight = Max({x.weight : x \in positive}) => stored(row) = 1
                        /\ \A other \in positive :
                              other.weight >= row.weight => stored(other) <= stored(row)
                ELSE \A row \in positive : stored(row) = row.weight]_vars

\* A JSON payload without the marker, with the strengths 9 and 3, was loaded
\* as the distances 1 and 8.
C22_Witness ==
  /\ last.op = "load_json"
  /\ last.note = ""
  /\ {row.weight : row \in last.rows} = {9, 3}
  /\ HasEdge(Graph, "a", "b") /\ adjacency["a"]["b"] = 1
  /\ HasEdge(Graph, "a", "c") /\ adjacency["a"]["c"] = 8

\* Whether a person satisfies one criterion, by the kind of the field: the
\* value is a member of a list, a string is a key of a map and a map agrees
\* with the map on each of its keys, a scalar is equal.
Satisfies(person, attr, expected) ==
  CASE attr \in {"schools", "employers", "ecosystems"} ->
         expected.kind = "str" /\ expected.v \in person[attr]
    [] attr = "societies" /\ expected.kind = "str" -> expected.v \in DOMAIN person.societies
    [] attr = "societies" /\ expected.kind = "dict" ->
         /\ DOMAIN expected.v \subseteq DOMAIN person.societies
         /\ \A key \in DOMAIN expected.v : person.societies[key] = expected.v[key]
    [] attr = "societies" /\ expected.kind = "int" -> FALSE
    [] attr \in {"tier", "dependency_weight"} ->
         expected.kind = "int" /\ person[attr] = expected.v
    [] OTHER -> expected.kind = "str" /\ person[attr] = expected.v

\* C23: filter_people returns exactly the people that satisfy every
\* criterion, all people when there is no criterion, and changes nothing.
C23_FilterReturnsExactlyMatching ==
  [][last'.op = "filter_people"
       => /\ last'.matches =
               {id \in DOMAIN people :
                  \A attr \in DOMAIN last'.criteria :
                     Satisfies(people[id], attr, last'.criteria[attr])}
          /\ last'.criteria = EmptyMap => last'.matches = DOMAIN people
          /\ UNCHANGED <<people, adjacency, edge_contexts>>]_vars

\* filter_people(schools="Stanford", tier=1) returned one of three people,
\* another one matching one criterion only.
C23_Witness ==
  /\ last.op = "filter_people"
  /\ DOMAIN last.criteria = {"schools", "tier"}
  /\ Cardinality(DOMAIN people) = 3
  /\ Cardinality(last.matches) = 1
  /\ \E id \in DOMAIN people : "Stanford" \in people[id].schools /\ people[id].tier = 2

\* C24 as stated: the pair is explicit through its family records only when
\* each names the other; with no close connection in either direction and a
\* family record in at most one direction, edge_distance_value returns None
\* or an inferred relationship.
C24_FamilyEvidenceOnlyWhenMutual ==
  last.op = "edge_distance_value"
    => LET new_person == people[last.a]
           other_person == people[last.b]
           mutual == /\ other_person.id \in new_person.family_links
                     /\ new_person.id \in other_person.family_links
           close == \/ other_person.id \in new_person.close_connections
                    \/ new_person.id \in other_person.close_connections
       IN (~close /\ ~mutual) => (last.candidate.none \/ ~last.candidate.explicit)

\* The number of values two people share in a list-valued field.
Overlap(new_person, other_person, field) ==
  Cardinality(new_person[field] \cap other_person[field])

\* The best score of a pair of date ranges the two people have at org.
BestPair(new_person, other_person, org, today) ==
  Max({pair_decision_score(x.start, x.end, y.start, y.end, today) :
         x \in {n \in new_person.decision_nodes : n.org = org},
         y \in {n \in other_person.decision_nodes : n.org = org}})

\* C25: each inferred category adds min(cap, points * overlap) to the score:
\* schools 3 each up to 6, employers 4 each up to 8, ecosystem tags 2 each up
\* to 4, platform keys 1 each up to 2, an identical location exactly 2, the
\* best pairs of date ranges summed over the shared organisations up to 10,
\* and the societies up to 8.
C25_CategoriesAreCapped ==
  last.op = "edge_distance_value"
    => LET new_person == people[last.a]
           other_person == people[last.b]
           orgs == {n.org : n \in new_person.decision_nodes}
                     \cap {n.org : n \in other_person.decision_nodes}
           best == [org \in orgs |-> BestPair(new_person, other_person, org, last.delta)]
       IN /\ last.points.schools = min2(6, 3 * Overlap(new_person, other_person, "schools"))
          /\ last.points.employers = min2(8, 4 * Overlap(new_person, other_person, "employers"))
          /\ last.points.ecosystems = min2(4, 2 * Overlap(new_person, other_person, "ecosystems"))
          /\ last.points.platforms = min2(2, Overlap(new_person, other_person, "platforms"))
          /\ last.points.location =
               (IF new_person.location # "" /\ new_person.location = other_person.location
                THEN 2 ELSE 0)
          /\ last.points.decision = min2(10, SumOver(best, orgs))
          /\ last.points.societies <= 8
          /\ last.points.societies =
               min2(8, society_score(new_person.societies, other_person.societies))

\* A pair whose overlap exceeds the cap in every capped category.
C25_Witness ==
  /\ last.op = "edge_distance_value"
  /\ Overlap(people[last.a], people[last.b], "schools") = 3
  /\ Overlap(people[last.a], people[last.b], "employers") = 3
  /\ Overlap(people[last.a], people[last.b], "ecosystems") = 3
  /\ Overlap(people[last.a], people[last.b], "platforms") = 3
  /\ decision_node_overlap_score(people[last.a].decision_nodes,
                                 people[last.b].decision_nodes, last.delta) > 10
  /\ society_score(people[last.a].societies, people[last.b].societies) > 8
  /\ last.points = [schools |-> 6, employers |-> 8, ecosystems |-> 4, platforms |-> 2,
                    location |-> 2, decision |-> 10, societies |-> 8]

\* The calls of a list that are among the given ones.
CallsAmong(calls, names) == {i \in DOMAIN calls : calls[i] \in names}

\* C26 as stated: with web search enabled and the image read, a web-search
\* failure with status 500 or 502 is followed by exactly one name-based retry
\* when a name is available (given with the request or read from the image);
\* when no name is available or the retry fails with 500 or 502 the
\* image-only fields come back with web_search_used false and
\* web_search_fallback true; any other status of either step is raised.
C26_WebSearchFallback ==
  (last.op = "extract_person_fields" /\ last.request.image_status = 0 /\ last.request.web_search)
    => LET request == last.request
           name_available == request.name_hint # "" \/ request.image_fields.name # ""
           web_calls == CallsAmong(last.calls, {"web", "name_follow_up"})
           failed == IF "name_follow_up" \in {last.calls[i] : i \in web_calls}
                     THEN request.follow_up_status
                     ELSE request.web_status
           retries == CallsAmong(last.calls, {"name_retry"})
           fell_back == /\ last.err = ""
                        /\ last.payload.fields = request.image_fields
                        /\ "web_search_used" \notin last.payload.true_keys
                        /\ "web_search_fallback" \in last.payload.true_keys
       IN /\ failed \notin {0, 500, 502} => (last.err = "HTTPException" /\ last.delta = failed)
          /\ (failed \in {500, 502} /\ name_available) => Cardinality(retries) = 1
          /\ (failed \in {500, 502} /\ ~name_available) => (retries = {} /\ fell_back)
          /\ (failed \in {500, 502} /\ retries # {})
               => /\ request.retry_status \in {500, 502} => fell_back
                  /\ request.retry_status \notin {0, 500, 502}
                       => (last.err = "HTTPException" /\ last.delta = request.retry_status)

\* The people a directed path of stored edges leads to from the people of
\* seen, those included.
RECURSIVE ReachableFrom(_, _)
ReachableFrom(g, seen) ==
  LET next == seen \cup UNION {DOMAIN g.adjacency[s] : s \in seen \cap DOMAIN g.adjacency}
  IN IF next = seen THEN seen ELSE ReachableFrom(g, next)

\* C27 as stated: when an edge between two people is added, strengthened or
\* removed and neither of the two is reachable from start, a query from
\* start without a strategy returns the same people in the same order and
\* the same total strength as before.
C27_UnreachableEdgesDoNotMatter ==
  [][(last'.op \in {"add_connection", "remove_connection"} /\ last'.err = "")
       => \A start \in DOMAIN people, goal \in DOMAIN people :
            ({last'.a, last'.b} \cap ReachableFrom(Graph, {start}) = {})
              => LET before == dijkstra_shortest_path(Graph, start, goal, DYNAMIC,
                                                      fixed_high_default).result
                     after == dijkstra_shortest_path(Graph', start, goal, DYNAMIC,
                                                     fixed_high_default).result
                 IN /\ after.found = before.found
                    /\ after.node_ids = before.node_ids
                    /\ after.total_strength = before.total_strength]_vars

C29_ContextsOnlyForStoredEdges ==
  \A k \in DOMAIN edge_contexts : HasEdge(Graph, k[1], k[2])

\* A symmetric add_connection with contexts dropped one direction of a pair
\* and left the other stored with its contexts.
C29_Witness ==
  /\ last.op = "add_connection" /\ last.err = "" /\ last.flag
  /\ last.note = "deleted"
  /\ \/ (~HasEdge(Graph, last.a, last.b) /\ <<last.b, last.a>> \in DOMAIN edge_contexts)
     \/ (~HasEdge(Graph, last.b, last.a) /\ <<last.a, last.b>> \in DOMAIN edge_contexts)

----------------------------------------------------------------------------
\* The single operation an event stands for, called on the graph directly.
SingleOperation(service, g, event) ==
  CASE event.kind = "PersonEvent" /\ service.auto_connect_people ->
         upsert_person_with_auto_edges(
           g, event.person, event.overwrite,
           IF event.auto_top_k = NoTopK THEN service.auto_top_k ELSE event.auto_top_k,
           Today, IngestOrder)
    [] event.kind = "PersonEvent" /\ ~service.auto_connect_people ->
         add_person(g, event.person, event.overwrite)
    [] event.kind = "EdgeEvent" ->
         add_connection(g, event.source, event.target, event.weight_delta,
                        event.contexts, event.symmetric)
    [] OTHER -> [g |-> g, err |-> "TypeError"]

\* The graph after the single operations of the first n events, one by one.
RECURSIVE OneByOne(_, _, _, _)
OneByOne(service, g, events, n) ==
  IF n = 0 THEN g
  ELSE SingleOperation(service, OneByOne(service, g, events, n - 1), events[n]).g

\* Every person and every edge of graph g is held unchanged by graph h.
Remains(g, h) ==
  /\ \A id \in DOMAIN g.people : id \in DOMAIN h.people /\ h.people[id] = g.people[id]
  /\ \A s \in DOMAIN g.adjacency : \A t \in DOMAIN g.adjacency[s] :
        /\ HasEdge(h, s, t)
        /\ h.adjacency[s][t] = g.adjacency[s][t]
        /\ edge_contexts_of(h, s, t) = edge_contexts_of(g, s, t)

\* An apply that raised at event k leaves what events 1..k-1 built.
EarlierEffectsRemain ==
  [][(last'.op = "apply" /\ last'.err # "")
       => Remains(OneByOne(last'.request.service, Graph, last'.request.events,
                           last'.delta - 1),
                  Graph')]_vars

\* An apply that raised at event k leaves the graph the first k events
\* alone leave: no event after k is applied.
LaterEventsNeverApplied ==
  [][(last'.op = "apply" /\ last'.err # "")
       => /\ last'.delta \in 1..Len(last'.request.events)
          /\ Graph' = OneByOne(last'.request.service, Graph, last'.request.events,
                               last'.delta)]_vars

\* An apply that returned leaves the graph of the single operations.
SuccessEqualsOneByOne ==
  [][(last'.op = "apply" /\ last'.err = "")
       => Graph' = OneByOne(last'.request.service, Graph, last'.request.events,
                            Len(last'.request.events))]_vars

\* C30: apply applies the events in the given order without rollback: when
\* event k raises, what events 1..k-1 built remains in the graph and no
\* later event is applied; when no event raises, the graph is the one the
\* single operations of the events give when called one by one in order.
C30_AppliesInOrderWithoutRollback ==
  EarlierEffectsRemain /\ LaterEventsNeverApplied /\ SuccessEqualsOneByOne

\* An apply raised at its second or third event after earlier events had
\* stored a person.
C30_Witness ==
  /\ last.op = "apply"
  /\ last.err # ""
  /\ last.delta > 1
  /\ DOMAIN people # {}

====
